---- MODULE Spec2Model ----
(***************************************************************************)
(* Model of the Go rules engine of src/Goban.py (class Board): the grid,   *)
(* the union-find string registry with its liberty and size arrays, the    *)
(* Zobrist hash and the seen-hash set, the push/pop trail, and the move    *)
(* generators.  Every operation of the class is one atomic action, since   *)
(* the class is single threaded and synchronous.                           *)
(*                                                                         *)
(* Hash values.  The 64 bit Zobrist constants are drawn at random and      *)
(* combined with XOR.  A hash value is modelled as the set of constants    *)
(* XORed into it an odd number of times, and XOR as symmetric difference:  *)
(* this is XOR over bit vectors in which every constant owns one bit.      *)
(***************************************************************************)
EXTENDS Integers, Sequences, FiniteSets, TLC

\* ----------------------------------------------------------------------
\* Bounds of the model
\* ----------------------------------------------------------------------
\* Side of the square board.  Board._BOARDSIZE is 9 in the source; the
\* code reads the side only through that class attribute, and the model is
\* explored on the board of side 2.
BOARDSIZE == 2
\* Largest number of frames on the trail.
MaxDepth == 7
\* Largest number of calls made by a caller that keeps no discipline.
MaxCalls == 4
\* Largest number of push and pop calls of a search that nests them freely.
MaxTrailCalls == 8
\* Largest coordinate handed to the static coordinate functions.
MaxCoord == 9

\* ----------------------------------------------------------------------
\* Colours and moves
\* ----------------------------------------------------------------------
EMPTY == 0
BLACK == 1
WHITE == 2
PASS == 0 - 1

NbCells == BOARDSIZE * BOARDSIZE
Cells == 0 .. (NbCells - 1)

flip(player) == IF player = BLACK THEN WHITE ELSE BLACK

\* ----------------------------------------------------------------------
\* Coordinate codec
\* ----------------------------------------------------------------------
flatten(coord) ==
    IF coord = <<0 - 1, 0 - 1>> THEN 0 - 1
    ELSE BOARDSIZE * coord[2] + coord[1]

\* Mutant of unflatten: quotient and remainder are not swapped.
unflatten_noSwap(fcoord) ==
    IF fcoord = 0 - 1 THEN <<0 - 1, 0 - 1>>
    ELSE <<fcoord \div BOARDSIZE, fcoord % BOARDSIZE>>

unflatten(fcoord) ==
    IF fcoord = 0 - 1 THEN <<0 - 1, 0 - 1>>
    ELSE <<fcoord % BOARDSIZE, fcoord \div BOARDSIZE>>

\* A string is the sequence of its characters.
PassName == <<"P", "A", "S", "S">>

letterIndex == <<"A", "B", "C", "D", "E", "F", "G", "H", "J">>

DecimalDigits == <<"0", "1", "2", "3", "4", "5", "6", "7", "8", "9">>

RECURSIVE str(_)
\* str(n) of an integer: its decimal digits, after a minus sign if n < 0.
str(n) ==
    IF n < 0 THEN <<"-">> \o str(0 - n)
    ELSE IF n < 10 THEN <<DecimalDigits[n + 1]>>
    ELSE str(n \div 10) \o <<DecimalDigits[(n % 10) + 1]>>

RECURSIVE digitsValue(_, _)
\* The number written by the digits s after the digits that gave acc.
digitsValue(s, acc) ==
    IF s = << >> THEN acc
    ELSE digitsValue(Tail(s),
             10 * acc + ((CHOOSE d \in 1 .. 10 : DecimalDigits[d] = Head(s)) - 1))

\* The strings int() reads: digits after an optional sign.
isDigits(t) ==
    /\ t # << >>
    /\ \A k \in 1 .. Len(t) : \E d \in 1 .. 10 : DecimalDigits[d] = t[k]

isInt(s) ==
    \/ isDigits(s)
    \/ s # << >> /\ Head(s) \in {"-", "+"} /\ isDigits(Tail(s))

\* int(s) of a string that int() reads.
int(s) ==
    IF Head(s) = "-" THEN 0 - digitsValue(Tail(s), 0)
    ELSE IF Head(s) = "+" THEN digitsValue(Tail(s), 0)
    ELSE digitsValue(s, 0)

\* The dictionary of name_to_coord.
indexLetters ==
    ("A" :> 0) @@ ("B" :> 1) @@ ("C" :> 2) @@ ("D" :> 3) @@ ("E" :> 4)
        @@ ("F" :> 5) @@ ("G" :> 6) @@ ("H" :> 7) @@ ("J" :> 8)

\* name_to_coord: the letter is looked up in the dictionary indexLetters,
\* the rest of the name is read as the 1-based row.  Where the code raises,
\* the value is the one-element tuple naming the exception.
name_to_coord(s) ==
    IF s = PassName THEN <<0 - 1, 0 - 1>>
    ELSE IF s = << >> THEN <<"IndexError">>
    ELSE IF s[1] \notin DOMAIN indexLetters THEN <<"KeyError">>
    ELSE IF ~isInt(SubSeq(s, 2, Len(s))) THEN <<"ValueError">>
    ELSE <<indexLetters[s[1]], int(SubSeq(s, 2, Len(s))) - 1>>

\* name_to_flat; an exception of name_to_coord goes through as its name.
name_to_flat(s) ==
    LET flat(coord) == IF Len(coord) = 1 THEN coord[1] ELSE flatten(coord)
    IN flat(name_to_coord(s))

\* coord_to_name: the letter of the column, indexed as Python indexes a
\* string (a negative index counts from the end), then str of the 1-based
\* row.  An index out of range gives the one-element tuple naming the
\* exception.
coord_to_name(coord) ==
    IF coord = <<0 - 1, 0 - 1>> THEN PassName
    ELSE IF coord[1] >= 0 /\ coord[1] < Len(letterIndex)
    THEN <<letterIndex[coord[1] + 1]>> \o str(coord[2] + 1)
    ELSE IF coord[1] < 0 /\ coord[1] >= 0 - Len(letterIndex)
    THEN <<letterIndex[Len(letterIndex) + coord[1] + 1]>> \o str(coord[2] + 1)
    ELSE <<"IndexError">>

flat_to_name(fcoord) ==
    IF fcoord = 0 - 1 THEN PassName
    ELSE coord_to_name(unflatten(fcoord))

\* ----------------------------------------------------------------------
\* Neighbourhood tables
\* ----------------------------------------------------------------------
isOnBoard(x, y) == x >= 0 /\ x < BOARDSIZE /\ y >= 0 /\ y < BOARDSIZE

\* The neighbours of a cell, in the order the sentinel-terminated table
\* lists them: (x+1,y), (x-1,y), (x,y+1), (x,y-1), off-board ones dropped.
get_neighbors(fcoord) ==
    LET x == unflatten(fcoord)[1]
        y == unflatten(fcoord)[2]
        cand == << <<x + 1, y>>, <<x - 1, y>>, <<x, y + 1>>, <<x, y - 1>> >>
        onb(c) == isOnBoard(c[1], c[2])
        kept == SelectSeq(cand, onb)
    IN [i \in 1 .. Len(kept) |-> flatten(kept[i])]

neighbors == [f \in Cells |-> get_neighbors(f)]

NeighborSet(f) == {neighbors[f][i] : i \in 1 .. Len(neighbors[f])}

\* ----------------------------------------------------------------------
\* Zobrist constants and XOR
\* ----------------------------------------------------------------------
Xor(a, b) == (a \ b) \cup (b \ a)

getPositionHash(fcoord, color) == {<<fcoord, color>>}
passHashB == {<<0 - 1, BLACK>>}
passHashW == {<<0 - 1, WHITE>>}
initialHash == {<<0 - 2, EMPTY>>}

\* ----------------------------------------------------------------------
\* String registry: union-find with partial path compression
\* ----------------------------------------------------------------------
RECURSIVE getStringOfStone(_, _)
\* The root reached from fcoord by following the parent pointers.
getStringOfStone(uf, fcoord) ==
    IF uf[fcoord] = 0 - 1 THEN fcoord ELSE getStringOfStone(uf, uf[fcoord])

RECURSIVE successives(_, _)
\* The cells visited after fcoord on the way to the root, the root last.
successives(uf, fcoord) ==
    IF uf[fcoord] = 0 - 1 THEN << >>
    ELSE <<uf[fcoord]>> \o successives(uf, uf[fcoord])

\* Mutant of rerouted: the queried cell is cut from its parent.
rerouted_queriedCut(uf, fcoord) ==
    LET compressed(succ) ==
            [c \in Cells |-> IF c = fcoord THEN 0 - 1
                             ELSE IF \E i \in 1 .. (Len(succ) - 1) : succ[i] = c
                             THEN succ[Len(succ)] ELSE uf[c]]
    IN compressed(successives(uf, fcoord))

\* The parent array after the query on fcoord: every visited cell but the
\* last one (the root) is re-pointed to the root; fcoord itself is not.
rerouted(uf, fcoord) ==
    LET compressed(succ) ==
            [c \in Cells |-> IF \E i \in 1 .. (Len(succ) - 1) : succ[i] = c
                             THEN succ[Len(succ)] ELSE uf[c]]
    IN compressed(successives(uf, fcoord))

\* Mutant of merge_strings: the liberties of str2 are not added to str1.
merge_strings_libertiesDropped(r, str1, str2) ==
    [r EXCEPT
        !.stringLiberties = [@ EXCEPT ![str2] = 0 - 1],
        !.stringSizes =
            [@ EXCEPT ![str1] = r.stringSizes[str1] + r.stringSizes[str2],
                      ![str2] = 0 - 1],
        !.assertOk = @ /\ (r.stringUnionFind[str2] = 0 - 1),
        !.stringUnionFind = [@ EXCEPT ![str2] = str1]]

\* Mutant of merge_strings: the size of str2 is not added to str1.
merge_strings_sizeDropped(r, str1, str2) ==
    [r EXCEPT
        !.stringLiberties =
            [@ EXCEPT ![str1] = r.stringLiberties[str1] + r.stringLiberties[str2],
                      ![str2] = 0 - 1],
        !.stringSizes = [@ EXCEPT ![str2] = 0 - 1],
        !.assertOk = @ /\ (r.stringUnionFind[str2] = 0 - 1),
        !.stringUnionFind = [@ EXCEPT ![str2] = str1]]

\* Mutant of merge_strings: str2 is not linked under str1.
merge_strings_noLink(r, str1, str2) ==
    [r EXCEPT
        !.stringLiberties =
            [@ EXCEPT ![str1] = r.stringLiberties[str1] + r.stringLiberties[str2],
                      ![str2] = 0 - 1],
        !.stringSizes =
            [@ EXCEPT ![str1] = r.stringSizes[str1] + r.stringSizes[str2],
                      ![str2] = 0 - 1],
        !.assertOk = @ /\ (r.stringUnionFind[str2] = 0 - 1)]

\* Mutant of merge_strings: the entries of str2 are not marked inactive.
merge_strings_absorbedKept(r, str1, str2) ==
    [r EXCEPT
        !.stringLiberties =
            [@ EXCEPT ![str1] = r.stringLiberties[str1] + r.stringLiberties[str2]],
        !.stringSizes =
            [@ EXCEPT ![str1] = r.stringSizes[str1] + r.stringSizes[str2]],
        !.assertOk = @ /\ (r.stringUnionFind[str2] = 0 - 1),
        !.stringUnionFind = [@ EXCEPT ![str2] = str1]]

\* _merge_strings on the three registry arrays held in the record r; the
\* field assertOk records whether the assertion on str2's parent held.
merge_strings(r, str1, str2) ==
    [r EXCEPT
        !.stringLiberties =
            [@ EXCEPT ![str1] = r.stringLiberties[str1] + r.stringLiberties[str2],
                      ![str2] = 0 - 1],
        !.stringSizes =
            [@ EXCEPT ![str1] = r.stringSizes[str1] + r.stringSizes[str2],
                      ![str2] = 0 - 1],
        !.assertOk = @ /\ (r.stringUnionFind[str2] = 0 - 1),
        !.stringUnionFind = [@ EXCEPT ![str2] = str1]]

RECURSIVE flood(_, _, _)
flood(grid, color, string) ==
    LET grown(more) ==
            IF more = {} THEN string ELSE flood(grid, color, string \cup more)
    IN grown({fn \in Cells : /\ grid[fn] = color
                             /\ fn \notin string
                             /\ \E c \in string : fn \in NeighborSet(c)})

\* The cells of the grid joined to fc by cells of fc's colour.
breadthSearchString(grid, fc) == flood(grid, grid[fc], {fc})

\* ----------------------------------------------------------------------
\* Legality checks.  Both walk the neighbours with _getStringOfStone and
\* therefore return the re-pointed parent array next to their answer.
\* ----------------------------------------------------------------------
\* Mutant of counted: the entry is rewritten at every visit, so a string
\* met twice loses one liberty only.
counted_noDedupe(dict, string, lib) ==
    (string :> (lib[string] - 1)) @@ dict

\* A dictionary entry string -> liberties left, as the surveys keep it.
counted(dict, string, lib) ==
    IF string \in DOMAIN dict THEN [dict EXCEPT ![string] = @ - 1]
    ELSE (string :> (lib[string] - 1)) @@ dict

RECURSIVE sumValues(_)
sumValues(dict) ==
    IF DOMAIN dict = {} THEN 0
    ELSE LET k == CHOOSE k \in DOMAIN dict : TRUE
         IN dict[k] + sumValues([j \in (DOMAIN dict) \ {k} |-> dict[j]])

RECURSIVE suicideSurvey(_, _, _, _, _)
suicideSurvey(b, fcoord, color, i, acc) ==
    IF i > Len(neighbors[fcoord]) THEN acc
    ELSE
        LET fn == neighbors[fcoord][i]
            visited(string) ==
                IF b.board[fn] = color
                THEN [acc EXCEPT !.uf = rerouted(@, fn),
                         !.libertiesFriends = counted(@, string, b.stringLiberties)]
                ELSE [acc EXCEPT !.uf = rerouted(@, fn),
                         !.libertiesOpponents = counted(@, string, b.stringLiberties)]
        IN IF b.board[fn] = EMPTY THEN [acc EXCEPT !.sawEmpty = TRUE]
           ELSE suicideSurvey(b, fcoord, color, i + 1,
                              visited(getStringOfStone(acc.uf, fn)))

\* Mutant of is_suicide: the liberties of the friendly strings are not
\* summed, any friendly neighbour makes the move acceptable.
is_suicide_friendsIgnored(b, fcoord, color) ==
    LET answer(acc) ==
            [ret |-> IF acc.sawEmpty THEN FALSE
                     ELSE IF \E s \in DOMAIN acc.libertiesOpponents :
                                 acc.libertiesOpponents[s] = 0 THEN FALSE
                     ELSE IF DOMAIN acc.libertiesFriends = {} THEN TRUE
                     ELSE FALSE,
             uf |-> acc.uf]
    IN answer(suicideSurvey(b, fcoord, color, 1,
                  [uf |-> b.stringUnionFind, sawEmpty |-> FALSE,
                   libertiesFriends |-> << >>, libertiesOpponents |-> << >>]))

\* _is_suicide: [ret |-> the answer, uf |-> the parent array afterwards]
is_suicide(b, fcoord, color) ==
    LET answer(acc) ==
            [ret |-> IF acc.sawEmpty THEN FALSE
                     ELSE IF \E s \in DOMAIN acc.libertiesOpponents :
                                 acc.libertiesOpponents[s] = 0 THEN FALSE
                     ELSE IF DOMAIN acc.libertiesFriends = {} THEN TRUE
                     ELSE IF sumValues(acc.libertiesFriends) = 0 THEN TRUE
                     ELSE FALSE,
             uf |-> acc.uf]
    IN answer(suicideSurvey(b, fcoord, color, 1,
                  [uf |-> b.stringUnionFind, sawEmpty |-> FALSE,
                   libertiesFriends |-> << >>, libertiesOpponents |-> << >>]))

RECURSIVE superKoSurvey(_, _, _, _, _)
superKoSurvey(b, fcoord, opponent, i, acc) ==
    IF i > Len(neighbors[fcoord]) THEN acc
    ELSE
        LET fn == neighbors[fcoord][i] IN
        superKoSurvey(b, fcoord, opponent, i + 1,
            IF b.board[fn] = opponent
            THEN [acc EXCEPT !.uf = rerouted(acc.uf, fn),
                     !.libertiesOpponents =
                         counted(@, getStringOfStone(acc.uf, fn), b.stringLiberties)]
            ELSE acc)

RECURSIVE removedHash_placedColour(_, _, _, _)
\* Mutant of removedHash: the stones are XORed out as stones of the colour
\* that moves.
removedHash_placedColour(grid, dead, opponent, h) ==
    IF dead = {} THEN h
    ELSE LET s == CHOOSE s \in dead : TRUE
         IN removedHash_placedColour(grid, dead \ {s}, opponent,
                Xor(h, UNION {getPositionHash(fn, flip(opponent)) :
                                  fn \in breadthSearchString(grid, s)}))

RECURSIVE removedHash(_, _, _, _)
\* The hash h after XORing out, string by string, the stones of the
\* strings whose roots are in dead.
removedHash(grid, dead, opponent, h) ==
    IF dead = {} THEN h
    ELSE LET s == CHOOSE s \in dead : TRUE
         IN removedHash(grid, dead \ {s}, opponent,
                Xor(h, UNION {getPositionHash(fn, opponent) :
                                  fn \in breadthSearchString(grid, s)}))

\* _is_super_ko: [seen |-> the answer, tmpHash |-> the predicted hash,
\* uf |-> the parent array afterwards, assertOk |-> no assertion failed]
is_super_ko(b, seenH, fcoord, color) ==
    LET opponent == flip(color)
        answer(uf, dead, tmpHash) ==
            [seen |-> tmpHash \in seenH, tmpHash |-> tmpHash, uf |-> uf,
             assertOk |-> \A s \in dead : \A fn \in breadthSearchString(b.board, s) :
                              b.board[fn] = opponent]
        predicted(uf, dead) ==
            answer(uf, dead,
                   removedHash(b.board, dead, opponent,
                       Xor(b.currentHash, getPositionHash(fcoord, color))))
        surveyed(acc) ==
            predicted(acc.uf, {s \in DOMAIN acc.libertiesOpponents :
                                  acc.libertiesOpponents[s] = 0})
    IN surveyed(superKoSurvey(b, fcoord, opponent, 1,
                    [uf |-> b.stringUnionFind, libertiesOpponents |-> << >>]))

\* ----------------------------------------------------------------------
\* Placement and capture
\* ----------------------------------------------------------------------
RECURSIVE putStoneWalk_oncePerString(_, _, _, _)
\* Mutant of putStoneWalk: a string loses one liberty for the first of its
\* stones met next to fcoord and none for the others.
putStoneWalk_oncePerString(fcoord, color, i, r) ==
    IF i > Len(neighbors[fcoord]) THEN r
    ELSE
        LET fn == neighbors[fcoord][i]
            met(stringNumber) ==
                \E k \in 1 .. (i - 1) :
                    /\ r.board[neighbors[fcoord][k]] = r.board[fn]
                    /\ getStringOfStone(r.stringUnionFind, neighbors[fcoord][k])
                           = stringNumber
            touched(stringNumber) ==
                [r EXCEPT !.stringUnionFind = rerouted(@, fn),
                          !.stringLiberties =
                              IF met(stringNumber) THEN @
                              ELSE [@ EXCEPT ![stringNumber] = @ - 1]]
            joined(stringNumber, r2) ==
                [(IF r.currentString # stringNumber
                  THEN merge_strings(r2, stringNumber, r.currentString)
                  ELSE r2) EXCEPT !.currentString = stringNumber]
            emptied(stringNumber, r2) ==
                IF /\ r2.stringLiberties[stringNumber] = 0
                   /\ ~ \E k \in 1 .. Len(r.stringWithNoLiberties) :
                            r.stringWithNoLiberties[k] = stringNumber
                THEN [r2 EXCEPT !.stringWithNoLiberties = Append(@, stringNumber)]
                ELSE r2
            friend(stringNumber) == joined(stringNumber, touched(stringNumber))
            foe(stringNumber) == emptied(stringNumber, touched(stringNumber))
        IN IF r.board[fn] = color
           THEN putStoneWalk_oncePerString(fcoord, color, i + 1,
                             friend(getStringOfStone(r.stringUnionFind, fn)))
           ELSE IF r.board[fn] # EMPTY
           THEN putStoneWalk_oncePerString(fcoord, color, i + 1,
                             foe(getStringOfStone(r.stringUnionFind, fn)))
           ELSE putStoneWalk_oncePerString(fcoord, color, i + 1, r)

RECURSIVE putStoneWalk(_, _, _, _)
\* The second loop of _put_stone over the neighbours of fcoord; r carries
\* the grid, the registry arrays, currentString and stringWithNoLiberties.
putStoneWalk(fcoord, color, i, r) ==
    IF i > Len(neighbors[fcoord]) THEN r
    ELSE
        LET fn == neighbors[fcoord][i]
            \* the neighbour's string has lost the liberty fcoord was
            touched(stringNumber) ==
                [r EXCEPT !.stringUnionFind = rerouted(@, fn),
                          !.stringLiberties = [@ EXCEPT ![stringNumber] = @ - 1]]
            joined(stringNumber, r2) ==
                [(IF r.currentString # stringNumber
                  THEN merge_strings(r2, stringNumber, r.currentString)
                  ELSE r2) EXCEPT !.currentString = stringNumber]
            emptied(stringNumber, r2) ==
                IF /\ r2.stringLiberties[stringNumber] = 0
                   /\ ~ \E k \in 1 .. Len(r.stringWithNoLiberties) :
                            r.stringWithNoLiberties[k] = stringNumber
                THEN [r2 EXCEPT !.stringWithNoLiberties = Append(@, stringNumber)]
                ELSE r2
            friend(stringNumber) == joined(stringNumber, touched(stringNumber))
            foe(stringNumber) == emptied(stringNumber, touched(stringNumber))
        IN IF r.board[fn] = color
           THEN putStoneWalk(fcoord, color, i + 1,
                             friend(getStringOfStone(r.stringUnionFind, fn)))
           ELSE IF r.board[fn] # EMPTY
           THEN putStoneWalk(fcoord, color, i + 1,
                             foe(getStringOfStone(r.stringUnionFind, fn)))
           ELSE putStoneWalk(fcoord, color, i + 1, r)

\* _put_stone on the board record b (fcoord is an empty cell):
\* [b |-> the record afterwards, captured |-> the list the method returns,
\*  assertOk |-> the assertion of _merge_strings never failed]
put_stone(b, fcoord, color) ==
    LET grid == [b.board EXCEPT ![fcoord] = color]
        nbEmpty == Cardinality({i \in 1 .. Len(neighbors[fcoord]) :
                                   grid[neighbors[fcoord][i]] = EMPTY})
        start == [board |-> grid,
                  stringUnionFind |-> b.stringUnionFind,
                  stringLiberties |-> [b.stringLiberties EXCEPT ![fcoord] = nbEmpty],
                  stringSizes |-> [b.stringSizes EXCEPT ![fcoord] = 1],
                  currentString |-> fcoord,
                  stringWithNoLiberties |-> << >>,
                  assertOk |-> TRUE]
        placed(r) ==
            [b |-> [b EXCEPT !.board = r.board,
                             !.currentHash = Xor(@, getPositionHash(fcoord, color)),
                             !.empties = @ \ {fcoord},
                             !.stringUnionFind = r.stringUnionFind,
                             !.stringLiberties = r.stringLiberties,
                             !.stringSizes = r.stringSizes],
             captured |-> r.stringWithNoLiberties,
             assertOk |-> r.assertOk]
    IN placed(putStoneWalk(fcoord, color, 1, start))

RECURSIVE freedWalk_oncePerString(_, _, _)
\* Mutant of freedWalk: a string gets one liberty back however many of its
\* stones touch the freed cell.
freedWalk_oncePerString(s, i, b) ==
    IF i > Len(neighbors[s]) THEN b
    ELSE
        LET fn == neighbors[s][i]
            met(st) == \E j \in 1 .. (i - 1) :
                          /\ b.board[neighbors[s][j]] # EMPTY
                          /\ getStringOfStone(b.stringUnionFind, neighbors[s][j]) = st
            freed(st) ==
                [b EXCEPT !.stringUnionFind = rerouted(@, fn),
                          !.stringLiberties =
                              IF st # s /\ ~met(st) THEN [@ EXCEPT ![st] = @ + 1] ELSE @]
        IN IF b.board[fn] # EMPTY
           THEN freedWalk_oncePerString(s, i + 1,
                    freed(getStringOfStone(b.stringUnionFind, fn)))
           ELSE freedWalk_oncePerString(s, i + 1, b)

RECURSIVE freedWalk(_, _, _)
\* The neighbour loop of _capture_string for the freed cell s.
freedWalk(s, i, b) ==
    IF i > Len(neighbors[s]) THEN b
    ELSE
        LET fn == neighbors[s][i]
            freed(st) ==
                [b EXCEPT !.stringUnionFind = rerouted(@, fn),
                          !.stringLiberties =
                              IF st # s THEN [@ EXCEPT ![st] = @ + 1] ELSE @]
        IN IF b.board[fn] # EMPTY
           THEN freedWalk(s, i + 1, freed(getStringOfStone(b.stringUnionFind, fn)))
           ELSE freedWalk(s, i + 1, b)

\* Mutant of capture_stone: the counters of the wrong colour are updated.
capture_stone_wrongSide(b, s) ==
    LET b1 == IF b.nextPlayer = BLACK
              THEN [b EXCEPT !.capturedBLACK = @ + 1, !.nbBLACK = @ - 1]
              ELSE [b EXCEPT !.capturedWHITE = @ + 1, !.nbWHITE = @ - 1]
        b2 == [b1 EXCEPT !.currentHash = Xor(@, getPositionHash(s, b.board[s])),
                         !.board = [@ EXCEPT ![s] = EMPTY],
                         !.empties = @ \cup {s}]
        b3 == freedWalk(s, 1, b2)
    IN [b3 EXCEPT !.stringUnionFind = [@ EXCEPT ![s] = 0 - 1],
                  !.stringSizes = [@ EXCEPT ![s] = 0 - 1],
                  !.stringLiberties = [@ EXCEPT ![s] = 0 - 1]]

\* Mutant of capture_stone: the neighbours of the freed cell get no
\* liberty back.
capture_stone_noLibertyBack(b, s) ==
    LET b1 == IF b.nextPlayer = WHITE
              THEN [b EXCEPT !.capturedBLACK = @ + 1, !.nbBLACK = @ - 1]
              ELSE [b EXCEPT !.capturedWHITE = @ + 1, !.nbWHITE = @ - 1]
        b2 == [b1 EXCEPT !.currentHash = Xor(@, getPositionHash(s, b.board[s])),
                         !.board = [@ EXCEPT ![s] = EMPTY],
                         !.empties = @ \cup {s}]
    IN [b2 EXCEPT !.stringUnionFind = [@ EXCEPT ![s] = 0 - 1],
                  !.stringSizes = [@ EXCEPT ![s] = 0 - 1],
                  !.stringLiberties = [@ EXCEPT ![s] = 0 - 1]]

\* Mutant of capture_stone: the freed cell is not put back into the set
\* of empty cells.
capture_stone_emptiesKept(b, s) ==
    LET b1 == IF b.nextPlayer = WHITE
              THEN [b EXCEPT !.capturedBLACK = @ + 1, !.nbBLACK = @ - 1]
              ELSE [b EXCEPT !.capturedWHITE = @ + 1, !.nbWHITE = @ - 1]
        b2 == [b1 EXCEPT !.currentHash = Xor(@, getPositionHash(s, b.board[s])),
                         !.board = [@ EXCEPT ![s] = EMPTY]]
        b3 == freedWalk(s, 1, b2)
    IN [b3 EXCEPT !.stringUnionFind = [@ EXCEPT ![s] = 0 - 1],
                  !.stringSizes = [@ EXCEPT ![s] = 0 - 1],
                  !.stringLiberties = [@ EXCEPT ![s] = 0 - 1]]

\* Mutant of capture_stone: the captured-stone counters are left alone.
capture_stone_notCounted(b, s) ==
    LET b1 == IF b.nextPlayer = WHITE
              THEN [b EXCEPT !.nbBLACK = @ - 1]
              ELSE [b EXCEPT !.nbWHITE = @ - 1]
        b2 == [b1 EXCEPT !.currentHash = Xor(@, getPositionHash(s, b.board[s])),
                         !.board = [@ EXCEPT ![s] = EMPTY],
                         !.empties = @ \cup {s}]
        b3 == freedWalk(s, 1, b2)
    IN [b3 EXCEPT !.stringUnionFind = [@ EXCEPT ![s] = 0 - 1],
                  !.stringSizes = [@ EXCEPT ![s] = 0 - 1],
                  !.stringLiberties = [@ EXCEPT ![s] = 0 - 1]]

\* One turn of the loop of _capture_string: the stone s leaves the board.
capture_stone(b, s) ==
    LET b1 == IF b.nextPlayer = WHITE
              THEN [b EXCEPT !.capturedBLACK = @ + 1, !.nbBLACK = @ - 1]
              ELSE [b EXCEPT !.capturedWHITE = @ + 1, !.nbWHITE = @ - 1]
        b2 == [b1 EXCEPT !.currentHash = Xor(@, getPositionHash(s, b.board[s])),
                         !.board = [@ EXCEPT ![s] = EMPTY],
                         !.empties = @ \cup {s}]
        b3 == freedWalk(s, 1, b2)
    IN [b3 EXCEPT !.stringUnionFind = [@ EXCEPT ![s] = 0 - 1],
                  !.stringSizes = [@ EXCEPT ![s] = 0 - 1],
                  !.stringLiberties = [@ EXCEPT ![s] = 0 - 1]]

RECURSIVE captureInOrder(_, _, _)
captureInOrder(b, order, i) ==
    IF i > Len(order) THEN b
    ELSE captureInOrder(capture_stone(b, order[i]), order, i + 1)

\* The orders in which a Python set of cells can be iterated.
Orders(string) ==
    {o \in [1 .. Cardinality(string) -> string] :
        \A i, j \in DOMAIN o : i # j => o[i] # o[j]}

\* _capture_string(fc): the set of possible results, one for each order in
\* which the loop can visit the stones of the string.
capture_string(b, fc) ==
    {captureInOrder(b, order, 1) : order \in Orders(breadthSearchString(b.board, fc))}

RECURSIVE captureAll(_, _, _)
\* The loop "for fc in captured" of play_move over a set bs of candidate
\* board records.
captureAll(bs, captured, i) ==
    IF i > Len(captured) THEN bs
    ELSE captureAll(UNION {capture_string(b, captured[i]) : b \in bs},
                    captured, i + 1)

\* ----------------------------------------------------------------------
\* play_move
\* ----------------------------------------------------------------------
\* The outcome of a call: the board record, the seen-hash set and the
\* move-name history afterwards, and what the call returned or raised.
Outcome(b, seenH, hist, ret) ==
    [b |-> b, seenHashes |-> seenH, historyMoveNames |-> hist, ret |-> ret]

\* Mutant of committed: the side to move is not flipped.
committed_sideKept(b, seenH, hist, fcoord) ==
    Outcome(b,
            seenH \cup {b.currentHash},
            Append(hist, flat_to_name(fcoord)),
            "True")

\* Mutant of committed: the hash is not added to the seen set.
committed_hashNotKept(b, seenH, hist, fcoord) ==
    Outcome([b EXCEPT !.nextPlayer = flip(b.nextPlayer)],
            seenH,
            Append(hist, flat_to_name(fcoord)),
            "True")

\* The tail of play_move shared by stone moves and passes.
committed(b, seenH, hist, fcoord) ==
    Outcome([b EXCEPT !.nextPlayer = flip(b.nextPlayer)],
            seenH \cup {b.currentHash},
            Append(hist, flat_to_name(fcoord)),
            "True")

\* The stone branch of play_move once the super-ko test has passed.
stoneOutcomes(b, seenH, hist, fcoord, tmpHash) ==
    IF fcoord \notin b.empties
    THEN \* _put_stone writes the grid and the hash, then set.remove raises
         {Outcome([b EXCEPT !.board = [@ EXCEPT ![fcoord] = b.nextPlayer],
                            !.currentHash = Xor(@, getPositionHash(fcoord, b.nextPlayer))],
                  seenH, hist, "KeyError")}
    ELSE
        LET finish(ps, b2) ==
                IF ~ps.assertOk \/ tmpHash # b2.currentHash
                THEN Outcome(b2, seenH, hist, "AssertionError")
                ELSE committed([b2 EXCEPT !.lastPlayerHasPassed = FALSE,
                                          !.nbWHITE = IF b2.nextPlayer = WHITE
                                                      THEN @ + 1 ELSE @,
                                          !.nbBLACK = IF b2.nextPlayer = WHITE
                                                      THEN @ ELSE @ + 1],
                               seenH, hist, fcoord)
            captures(ps) ==
                {finish(ps, b2) : b2 \in captureAll({ps.b}, ps.captured, 1)}
        IN captures(put_stone(b, fcoord, b.nextPlayer))

\* Mutant of passed: any pass ends the game.
passed_endsGame(b) ==
    [b EXCEPT !.gameOver = TRUE,
              !.lastPlayerHasPassed = TRUE,
              !.currentHash =
                  Xor(@, IF b.nextPlayer = BLACK THEN passHashB ELSE passHashW)]

\* Mutant of passed: the constant of the other colour goes into the hash.
passed_otherConstant(b) ==
    [b EXCEPT !.gameOver = b.lastPlayerHasPassed,
              !.lastPlayerHasPassed = TRUE,
              !.currentHash =
                  Xor(@, IF b.nextPlayer = BLACK THEN passHashW ELSE passHashB)]

\* The pass branch of play_move: the second pass in a row ends the game,
\* and the pass constant of the side to move is XORed into the hash.
passed(b) ==
    [b EXCEPT !.gameOver = IF b.lastPlayerHasPassed THEN TRUE ELSE @,
              !.lastPlayerHasPassed = IF b.lastPlayerHasPassed THEN @ ELSE TRUE,
              !.currentHash =
                  Xor(@, IF b.nextPlayer = BLACK THEN passHashB ELSE passHashW)]

\* Mutant of play_move: the super-ko answer is looked at only after the
\* stone has been put on the board.
play_move_rejectLate(b, seenH, hist, fcoord) ==
    IF b.gameOver THEN {Outcome(b, seenH, hist, "None")}
    ELSE IF fcoord # 0 - 1 THEN
        LET tested(sk, b1) ==
                IF ~sk.assertOk THEN {Outcome(b1, seenH, hist, "AssertionError")}
                ELSE IF sk.seen
                THEN {Outcome(put_stone(b1, fcoord, b.nextPlayer).b, seenH,
                              Append(hist, flat_to_name(fcoord)), "False")}
                ELSE stoneOutcomes(b1, seenH, hist, fcoord, sk.tmpHash)
            answered(sk) == tested(sk, [b EXCEPT !.stringUnionFind = sk.uf])
        IN answered(is_super_ko(b, seenH, fcoord, b.nextPlayer))
    ELSE
        {committed(passed(b), seenH, hist, fcoord)}

\* play_move(fcoord): the set of possible outcomes (more than one only
\* when a capture can visit its stones in several orders).
play_move(b, seenH, hist, fcoord) ==
    IF b.gameOver THEN {Outcome(b, seenH, hist, "None")}
    ELSE IF fcoord # 0 - 1 THEN
        LET tested(sk, b1) ==
                IF ~sk.assertOk THEN {Outcome(b1, seenH, hist, "AssertionError")}
                ELSE IF sk.seen
                THEN {Outcome(b1, seenH, Append(hist, flat_to_name(fcoord)), "False")}
                ELSE stoneOutcomes(b1, seenH, hist, fcoord, sk.tmpHash)
            answered(sk) == tested(sk, [b EXCEPT !.stringUnionFind = sk.uf])
        IN answered(is_super_ko(b, seenH, fcoord, b.nextPlayer))
    ELSE
        {committed(passed(b), seenH, hist, fcoord)}

\* ----------------------------------------------------------------------
\* Move generators
\* ----------------------------------------------------------------------
\* The cells of a set in increasing order (the generators iterate a set,
\* whose order carries no meaning; the list is kept in increasing order).
RECURSIVE sorted(_)
sorted(cells) ==
    IF cells = {} THEN << >>
    ELSE LET m == CHOOSE m \in cells : \A c \in cells : m <= c
         IN <<m>> \o sorted(cells \ {m})

RECURSIVE weakScan(_, _, _)
\* weak_legal_moves over the cells still to visit: the cells kept and the
\* parent array after all the _is_suicide calls.
weakScan(b, todo, acc) ==
    IF todo = {} THEN acc
    ELSE LET m == CHOOSE m \in todo : \A c \in todo : m <= c
             tested(su) ==
                 [uf |-> su.uf,
                  kept |-> IF su.ret THEN acc.kept ELSE acc.kept \cup {m}]
         IN weakScan(b, todo \ {m},
                tested(is_suicide([b EXCEPT !.stringUnionFind = acc.uf],
                                  m, b.nextPlayer)))

weak_legal_moves(b) ==
    LET listed(r) == [moves |-> Append(sorted(r.kept), 0 - 1), uf |-> r.uf]
    IN listed(weakScan(b, b.empties, [uf |-> b.stringUnionFind, kept |-> {}]))

RECURSIVE legalScan(_, _, _, _)
legalScan(b, seenH, todo, acc) ==
    IF todo = {} THEN acc
    ELSE LET m == CHOOSE m \in todo : \A c \in todo : m <= c
             \* "not _is_suicide(m) and not _is_super_ko(m)[0]": the second
             \* test runs only when the first one has answered False
             tested(su, sk) ==
                 IF su.ret
                 THEN [acc EXCEPT !.uf = su.uf]
                 ELSE [uf |-> sk.uf,
                       kept |-> IF sk.seen THEN acc.kept ELSE acc.kept \cup {m},
                       assertOk |-> acc.assertOk /\ sk.assertOk]
             surveyed(su) ==
                 tested(su, is_super_ko([b EXCEPT !.stringUnionFind = su.uf],
                                        seenH, m, b.nextPlayer))
         IN legalScan(b, seenH, todo \ {m},
                surveyed(is_suicide([b EXCEPT !.stringUnionFind = acc.uf],
                                    m, b.nextPlayer)))

\* Mutant of legal_moves: the super-ko test is left out.
legal_moves_noSuperKo(b, seenH) ==
    LET listed(r) ==
            [moves |-> Append(sorted(r.kept), 0 - 1), uf |-> r.uf, assertOk |-> TRUE]
    IN listed(weakScan(b, b.empties, [uf |-> b.stringUnionFind, kept |-> {}]))

\* Mutant of legal_moves: Pass is left out of the list.
legal_moves_noPass(b, seenH) ==
    LET listed(r) ==
            [moves |-> sorted(r.kept), uf |-> r.uf, assertOk |-> r.assertOk]
    IN listed(legalScan(b, seenH, b.empties,
                  [uf |-> b.stringUnionFind, kept |-> {}, assertOk |-> TRUE]))

legal_moves(b, seenH) ==
    LET listed(r) ==
            [moves |-> Append(sorted(r.kept), 0 - 1), uf |-> r.uf,
             assertOk |-> r.assertOk]
    IN listed(legalScan(b, seenH, b.empties,
                  [uf |-> b.stringUnionFind, kept |-> {}, assertOk |-> TRUE]))

\* ----------------------------------------------------------------------
\* Scoring
\* ----------------------------------------------------------------------
RECURSIVE areaScan(_, _, _, _)
\* The loop of _count_areas over the neighbours of one cell, from the
\* i-th on: an empty neighbour still to check joins the frontier, a stone
\* adds one to the count of its colour.
areaScan(grid, nbrs, i, st) ==
    IF i > Len(nbrs) THEN st
    ELSE IF grid[nbrs[i]] = EMPTY /\ nbrs[i] \in st.to_check
    THEN areaScan(grid, nbrs, i + 1,
                  [st EXCEPT !.to_check = @ \ {nbrs[i]},
                             !.frontier = Append(@, nbrs[i])])
    ELSE IF grid[nbrs[i]] = BLACK
    THEN areaScan(grid, nbrs, i + 1, [st EXCEPT !.touched_blacks = @ + 1])
    ELSE IF grid[nbrs[i]] = WHITE
    THEN areaScan(grid, nbrs, i + 1, [st EXCEPT !.touched_whites = @ + 1])
    ELSE areaScan(grid, nbrs, i + 1, st)

RECURSIVE areaWalk(_, _)
\* The loop of _count_areas over the frontier, which is popped at its end.
areaWalk(grid, st) ==
    IF st.frontier = << >> THEN st
    ELSE LET visit(current) ==
                 areaWalk(grid,
                     areaScan(grid, neighbors[current], 1,
                         [st EXCEPT !.frontier = SubSeq(@, 1, Len(@) - 1),
                                    !.ssize = @ + 1,
                                    !.assertOk = @ /\ current \notin st.to_check]))
         IN visit(st.frontier[Len(st.frontier)])

\* Mutant of tallied: an area that touches both colours goes to black.
tallied_bothToBlack(b, acc, area) ==
    IF area.touched_blacks = 0 /\ area.touched_whites > 0
    THEN [acc EXCEPT !.only_whites = @ + area.ssize,
                     !.assertOk = @ /\ area.assertOk]
    ELSE IF area.touched_blacks > 0
    THEN [acc EXCEPT !.only_blacks = @ + area.ssize,
                     !.assertOk = @ /\ area.assertOk]
    ELSE [acc EXCEPT !.others = @ + area.ssize,
                     !.assertOk = @ /\ area.assertOk]

\* Mutant of tallied: the assert asks every area to touch a stone, whatever
\* the two stone counters are.
tallied_countersIgnored(b, acc, area) ==
    LET ok == /\ acc.assertOk
              /\ area.assertOk
              /\ \/ area.touched_blacks > 0
                 \/ area.touched_whites > 0
    IN IF area.touched_blacks = 0 /\ area.touched_whites > 0
       THEN [acc EXCEPT !.only_whites = @ + area.ssize, !.assertOk = ok]
       ELSE IF area.touched_whites = 0 /\ area.touched_blacks > 0
       THEN [acc EXCEPT !.only_blacks = @ + area.ssize, !.assertOk = ok]
       ELSE [acc EXCEPT !.others = @ + area.ssize, !.assertOk = ok]

\* The end of one round of _count_areas: the assert on the area just
\* gathered, and its size added to one of the three totals.
tallied(b, acc, area) ==
    LET ok == /\ acc.assertOk
              /\ area.assertOk
              /\ \/ b.nbBLACK = 0 /\ b.nbWHITE = 0
                 \/ area.touched_blacks > 0
                 \/ area.touched_whites > 0
    IN IF area.touched_blacks = 0 /\ area.touched_whites > 0
       THEN [acc EXCEPT !.only_whites = @ + area.ssize, !.assertOk = ok]
       ELSE IF area.touched_whites = 0 /\ area.touched_blacks > 0
       THEN [acc EXCEPT !.only_blacks = @ + area.ssize, !.assertOk = ok]
       ELSE [acc EXCEPT !.others = @ + area.ssize, !.assertOk = ok]

RECURSIVE areaRounds(_, _, _)
\* The outer loop of _count_areas.  set.pop() takes any cell still to
\* check, so the loop gives the set of the totals it can end with.
areaRounds(b, to_check, acc) ==
    IF to_check = {} THEN {acc}
    ELSE UNION {
        LET next(area) == areaRounds(b, area.to_check, tallied(b, acc, area))
        IN next(areaWalk(b.board,
                    [to_check |-> to_check \ {s}, frontier |-> <<s>>,
                     ssize |-> 0, touched_blacks |-> 0, touched_whites |-> 0,
                     assertOk |-> b.board[s] = EMPTY]))
        : s \in to_check}

\* _count_areas: the totals (only_blacks, only_whites, others) it can
\* return, with assertOk false where one of its asserts fails.
count_areas(b) ==
    areaRounds(b, b.empties,
               [only_blacks |-> 0, only_whites |-> 0, others |-> 0,
                assertOk |-> TRUE])

\* compute_score: the pairs (blacks, whites) it can return.
compute_score(b) ==
    {[assertOk |-> score.assertOk,
      value |-> <<b.nbBLACK + score.only_blacks,
                  b.nbWHITE + score.only_whites>>] : score \in count_areas(b)}

\* Mutant of outcome: a tie goes to white.
outcome_tieToWhite(score_black, score_white) ==
    IF score_white >= score_black THEN "1-0" ELSE "0-1"

\* The comparison at the end of result.
outcome(score_black, score_white) ==
    IF score_white > score_black THEN "1-0"
    ELSE IF score_white < score_black THEN "0-1"
    ELSE "1/2-1/2"

\* result: the strings it can return.
result(b) ==
    {IF score.assertOk
     THEN outcome(b.nbBLACK + score.only_blacks, b.nbWHITE + score.only_whites)
     ELSE "AssertionError" : score \in count_areas(b)}

\* ----------------------------------------------------------------------
\* State of a Board
\* ----------------------------------------------------------------------
VARIABLES
    nbWHITE, nbBLACK, capturedWHITE, capturedBLACK,
    nextPlayer, board, lastPlayerHasPassed, gameOver,
    stringUnionFind, stringLiberties, stringSizes,
    empties, currentHash, seenHashes,
    historyMoveNames, trailMoves,
    \* the last call made on the board and what it returned
    op, arg, ret, moves,
    \* history variables: calls has one entry for each frame of the trail,
    \* holding the state at the moment push was called and the position the
    \* push produced; undone is the entry of the call the last pop undid
    calls, undone

boardVars == <<nbWHITE, nbBLACK, capturedWHITE, capturedBLACK,
               nextPlayer, board, lastPlayerHasPassed, gameOver,
               stringUnionFind, stringLiberties, stringSizes,
               empties, currentHash>>

vars == <<nbWHITE, nbBLACK, capturedWHITE, capturedBLACK,
          nextPlayer, board, lastPlayerHasPassed, gameOver,
          stringUnionFind, stringLiberties, stringSizes,
          empties, currentHash, seenHashes,
          historyMoveNames, trailMoves, op, arg, ret, moves, calls, undone>>

\* The thirteen fields a trail frame saves, as one record.
Cur ==
    [nbWHITE |-> nbWHITE, nbBLACK |-> nbBLACK,
     capturedWHITE |-> capturedWHITE, capturedBLACK |-> capturedBLACK,
     nextPlayer |-> nextPlayer, board |-> board,
     gameOver |-> gameOver, lastPlayerHasPassed |-> lastPlayerHasPassed,
     stringUnionFind |-> stringUnionFind, stringLiberties |-> stringLiberties,
     stringSizes |-> stringSizes, empties |-> empties,
     currentHash |-> currentHash]

Install(b) ==
    /\ nbWHITE' = b.nbWHITE
    /\ nbBLACK' = b.nbBLACK
    /\ capturedWHITE' = b.capturedWHITE
    /\ capturedBLACK' = b.capturedBLACK
    /\ nextPlayer' = b.nextPlayer
    /\ board' = b.board
    /\ gameOver' = b.gameOver
    /\ lastPlayerHasPassed' = b.lastPlayerHasPassed
    /\ stringUnionFind' = b.stringUnionFind
    /\ stringLiberties' = b.stringLiberties
    /\ stringSizes' = b.stringSizes
    /\ empties' = b.empties
    /\ currentHash' = b.currentHash

Init ==
    /\ nbWHITE = 0
    /\ nbBLACK = 0
    /\ capturedWHITE = 0
    /\ capturedBLACK = 0
    /\ nextPlayer = BLACK
    /\ board = [c \in Cells |-> EMPTY]
    /\ lastPlayerHasPassed = FALSE
    /\ gameOver = FALSE
    /\ stringUnionFind = [c \in Cells |-> 0 - 1]
    /\ stringLiberties = [c \in Cells |-> 0 - 1]
    /\ stringSizes = [c \in Cells |-> 0 - 1]
    /\ empties = Cells
    /\ currentHash = initialHash
    /\ seenHashes = {}
    /\ historyMoveNames = << >>
    /\ trailMoves = << >>
    /\ op = "init"
    /\ arg = 0 - 1
    /\ ret = "None"
    /\ moves = << >>
    /\ calls = << >>
    /\ undone = << >>

\* ----------------------------------------------------------------------
\* Trail
\* ----------------------------------------------------------------------
\* _pushBoard: the frame appended to the trail (the arrays and the set
\* are copied, so the frame is a value).
pushBoard(b) ==
    [nbWHITE |-> b.nbWHITE, nbBLACK |-> b.nbBLACK,
     capturedWHITE |-> b.capturedWHITE, capturedBLACK |-> b.capturedBLACK,
     nextPlayer |-> b.nextPlayer, board |-> b.board,
     gameOver |-> b.gameOver, lastPlayerHasPassed |-> b.lastPlayerHasPassed,
     stringUnionFind |-> b.stringUnionFind, stringLiberties |-> b.stringLiberties,
     stringSizes |-> b.stringSizes, empties |-> b.empties,
     currentHash |-> b.currentHash]

\* Mutant of popBoard: the two flags are taken from the frame in the
\* wrong order.
popBoard_flagsSwapped(oldStatus) ==
    [currentHash |-> oldStatus.currentHash, empties |-> oldStatus.empties,
     stringSizes |-> oldStatus.stringSizes,
     stringLiberties |-> oldStatus.stringLiberties,
     stringUnionFind |-> oldStatus.stringUnionFind,
     lastPlayerHasPassed |-> oldStatus.gameOver,
     gameOver |-> oldStatus.lastPlayerHasPassed, board |-> oldStatus.board,
     nextPlayer |-> oldStatus.nextPlayer,
     capturedBLACK |-> oldStatus.capturedBLACK,
     capturedWHITE |-> oldStatus.capturedWHITE,
     nbBLACK |-> oldStatus.nbBLACK, nbWHITE |-> oldStatus.nbWHITE]

\* Mutant of popBoard: the size array and the liberty array are taken
\* from the frame in the wrong order.
popBoard_arraysSwapped(oldStatus) ==
    [currentHash |-> oldStatus.currentHash, empties |-> oldStatus.empties,
     stringSizes |-> oldStatus.stringLiberties,
     stringLiberties |-> oldStatus.stringSizes,
     stringUnionFind |-> oldStatus.stringUnionFind,
     lastPlayerHasPassed |-> oldStatus.lastPlayerHasPassed,
     gameOver |-> oldStatus.gameOver, board |-> oldStatus.board,
     nextPlayer |-> oldStatus.nextPlayer,
     capturedBLACK |-> oldStatus.capturedBLACK,
     capturedWHITE |-> oldStatus.capturedWHITE,
     nbBLACK |-> oldStatus.nbBLACK, nbWHITE |-> oldStatus.nbWHITE]

\* _popBoard: the board record rebuilt from the frame oldStatus.
popBoard(oldStatus) ==
    [currentHash |-> oldStatus.currentHash, empties |-> oldStatus.empties,
     stringSizes |-> oldStatus.stringSizes,
     stringLiberties |-> oldStatus.stringLiberties,
     stringUnionFind |-> oldStatus.stringUnionFind,
     lastPlayerHasPassed |-> oldStatus.lastPlayerHasPassed,
     gameOver |-> oldStatus.gameOver, board |-> oldStatus.board,
     nextPlayer |-> oldStatus.nextPlayer,
     capturedBLACK |-> oldStatus.capturedBLACK,
     capturedWHITE |-> oldStatus.capturedWHITE,
     nbBLACK |-> oldStatus.nbBLACK, nbWHITE |-> oldStatus.nbWHITE]

\* The seen-hash set after pop has dropped hashtopop from it.
popSeen(seenH, hashtopop) ==
    IF hashtopop \in seenH THEN seenH \ {hashtopop} ELSE seenH

\* ----------------------------------------------------------------------
\* Operations of the disciplined caller: moves come from
\* weak_legal_moves(), push is not called once the game is over, and a
\* push that returned False is popped at once.
\* ----------------------------------------------------------------------
mustPop == op = "push" /\ ret = "False"

\* The moves of a list, as a set.
Elems(list) == {list[k] : k \in 1 .. Len(list)}

\* push(m), for m one of the moves weak_legal_moves() returns.
Push(m) ==
    /\ ~gameOver
    /\ ~mustPop
    /\ Len(trailMoves) < MaxDepth
    /\ \E out \in play_move(Cur, seenHashes, historyMoveNames, m) :
        /\ Install(out.b)
        /\ seenHashes' = out.seenHashes
        /\ historyMoveNames' = out.historyMoveNames
        /\ trailMoves' = Append(trailMoves, pushBoard(Cur))
        /\ op' = "push"
        /\ arg' = m
        /\ ret' = out.ret
        /\ moves' = << >>
        /\ calls' = Append(calls,
               [m |-> m, ret |-> out.ret, pre |-> Cur, seenBefore |-> seenHashes,
                board |-> out.b.board, currentHash |-> out.b.currentHash])
        /\ undone' = << >>

Pop ==
    /\ Len(trailMoves) > 0
    /\ Len(historyMoveNames) > 0
    /\ Install(popBoard(trailMoves[Len(trailMoves)]))
    /\ trailMoves' = SubSeq(trailMoves, 1, Len(trailMoves) - 1)
    /\ historyMoveNames' = SubSeq(historyMoveNames, 1, Len(historyMoveNames) - 1)
    /\ seenHashes' = popSeen(seenHashes, currentHash)
    /\ op' = "pop"
    /\ arg' = 0 - 1
    /\ ret' = "None"
    /\ moves' = << >>
    /\ calls' = SubSeq(calls, 1, Len(calls) - 1)
    /\ undone' = calls[Len(calls)]

LegalMoves ==
    /\ ~mustPop
    /\ \E r \in {legal_moves(Cur, seenHashes)} :
        /\ stringUnionFind' = r.uf
        /\ moves' = r.moves
        /\ ret' = IF r.assertOk THEN "list" ELSE "AssertionError"
    /\ op' = "legal_moves"
    /\ arg' = 0 - 1
    /\ undone' = << >>
    /\ UNCHANGED <<nbWHITE, nbBLACK, capturedWHITE, capturedBLACK,
                   nextPlayer, board, lastPlayerHasPassed, gameOver,
                   stringLiberties, stringSizes, empties, currentHash,
                   seenHashes, historyMoveNames, trailMoves, calls>>

WeakLegalMoves ==
    /\ ~mustPop
    /\ \E r \in {weak_legal_moves(Cur)} :
        /\ stringUnionFind' = r.uf
        /\ moves' = r.moves
    /\ op' = "weak_legal_moves"
    /\ arg' = 0 - 1
    /\ undone' = << >>
    /\ ret' = "list"
    /\ UNCHANGED <<nbWHITE, nbBLACK, capturedWHITE, capturedBLACK,
                   nextPlayer, board, lastPlayerHasPassed, gameOver,
                   stringLiberties, stringSizes, empties, currentHash,
                   seenHashes, historyMoveNames, trailMoves, calls>>

\* The three scoring calls change no field of the board.
CountAreas ==
    /\ ~mustPop
    /\ \E score \in count_areas(Cur) :
        /\ moves' = <<score.only_blacks, score.only_whites, score.others>>
        /\ ret' = IF score.assertOk THEN "tuple" ELSE "AssertionError"
    /\ op' = "_count_areas"
    /\ arg' = 0 - 1
    /\ undone' = << >>
    /\ UNCHANGED <<boardVars, seenHashes, historyMoveNames, trailMoves, calls>>

ComputeScore ==
    /\ ~mustPop
    /\ \E score \in compute_score(Cur) :
        /\ moves' = score.value
        /\ ret' = IF score.assertOk THEN "tuple" ELSE "AssertionError"
    /\ op' = "compute_score"
    /\ arg' = 0 - 1
    /\ undone' = << >>
    /\ UNCHANGED <<boardVars, seenHashes, historyMoveNames, trailMoves, calls>>

Result ==
    /\ ~mustPop
    /\ \E r \in result(Cur) : ret' = r
    /\ moves' = << >>
    /\ op' = "result"
    /\ arg' = 0 - 1
    /\ undone' = << >>
    /\ UNCHANGED <<boardVars, seenHashes, historyMoveNames, trailMoves, calls>>

Next ==
    \/ \E m \in Elems(weak_legal_moves(Cur).moves) : Push(m)
    \/ Pop
    \/ LegalMoves
    \/ WeakLegalMoves
    \/ CountAreas
    \/ ComputeScore
    \/ Result

Spec == Init /\ [][Next]_vars

\* ----------------------------------------------------------------------
\* The two tests behind the move generators, called on their own for an
\* empty cell and the side to move, as legal_moves() calls them.  Each
\* goes through _getStringOfStone and so may rewrite the parent array.
\* ----------------------------------------------------------------------
IsSuicide(m) ==
    /\ ~mustPop
    /\ m \in empties
    /\ \E r \in {is_suicide(Cur, m, nextPlayer)} :
        /\ stringUnionFind' = r.uf
        /\ ret' = IF r.ret THEN "True" ELSE "False"
    /\ moves' = << >>
    /\ op' = "_is_suicide"
    /\ arg' = m
    /\ undone' = << >>
    /\ UNCHANGED <<nbWHITE, nbBLACK, capturedWHITE, capturedBLACK,
                   nextPlayer, board, lastPlayerHasPassed, gameOver,
                   stringLiberties, stringSizes, empties, currentHash,
                   seenHashes, historyMoveNames, trailMoves, calls>>

IsSuperKo(m) ==
    /\ ~mustPop
    /\ m \in empties
    /\ \E r \in {is_super_ko(Cur, seenHashes, m, nextPlayer)} :
        /\ stringUnionFind' = r.uf
        /\ ret' = IF ~r.assertOk THEN "AssertionError"
                  ELSE IF r.seen THEN "True" ELSE "False"
        /\ moves' = <<r.tmpHash>>
    /\ op' = "_is_super_ko"
    /\ arg' = m
    /\ undone' = << >>
    /\ UNCHANGED <<nbWHITE, nbBLACK, capturedWHITE, capturedBLACK,
                   nextPlayer, board, lastPlayerHasPassed, gameOver,
                   stringLiberties, stringSizes, empties, currentHash,
                   seenHashes, historyMoveNames, trailMoves, calls>>

QueryNext ==
    \/ Next
    \/ \E m \in Cells : IsSuicide(m)
    \/ \E m \in Cells : IsSuperKo(m)

QuerySpec == Init /\ [][QueryNext]_vars

\* ----------------------------------------------------------------------
\* Operations of a caller that keeps no discipline: push and play_move are
\* called with any cell or Pass, in any state, and pop at any time.  Here
\* calls is the log of the calls made, one entry for each, and undone is
\* not used.
\* ----------------------------------------------------------------------
\* Mutant of pop: an empty trail is ignored and the hash is dropped from
\* the seen set all the same.
pop_emptyTrailIgnored(b, seenH, hist, trail) ==
    IF Len(trail) = 0
    THEN [b |-> b, seenHashes |-> popSeen(seenH, b.currentHash),
          historyMoveNames |-> hist, trailMoves |-> trail, ret |-> "None"]
    ELSE IF Len(hist) = 0
    THEN [b |-> popBoard(trail[Len(trail)]), seenHashes |-> seenH,
          historyMoveNames |-> hist,
          trailMoves |-> SubSeq(trail, 1, Len(trail) - 1), ret |-> "IndexError"]
    ELSE [b |-> popBoard(trail[Len(trail)]),
          seenHashes |-> popSeen(seenH, b.currentHash),
          historyMoveNames |-> SubSeq(hist, 1, Len(hist) - 1),
          trailMoves |-> SubSeq(trail, 1, Len(trail) - 1), ret |-> "None"]

\* Mutant of pop: the history of move names is left as it is.
pop_historyKept(b, seenH, hist, trail) ==
    IF Len(trail) = 0
    THEN [b |-> b, seenHashes |-> seenH, historyMoveNames |-> hist,
          trailMoves |-> trail, ret |-> "IndexError"]
    ELSE [b |-> popBoard(trail[Len(trail)]),
          seenHashes |-> popSeen(seenH, b.currentHash),
          historyMoveNames |-> hist,
          trailMoves |-> SubSeq(trail, 1, Len(trail) - 1), ret |-> "None"]

\* pop: list.pop() on an empty trail raises before anything is assigned;
\* on an empty history it raises at the end of _popBoard, once the frame
\* is restored and before the seen set is looked at.
pop(b, seenH, hist, trail) ==
    IF Len(trail) = 0
    THEN [b |-> b, seenHashes |-> seenH, historyMoveNames |-> hist,
          trailMoves |-> trail, ret |-> "IndexError"]
    ELSE IF Len(hist) = 0
    THEN [b |-> popBoard(trail[Len(trail)]), seenHashes |-> seenH,
          historyMoveNames |-> hist,
          trailMoves |-> SubSeq(trail, 1, Len(trail) - 1), ret |-> "IndexError"]
    ELSE [b |-> popBoard(trail[Len(trail)]),
          seenHashes |-> popSeen(seenH, b.currentHash),
          historyMoveNames |-> SubSeq(hist, 1, Len(hist) - 1),
          trailMoves |-> SubSeq(trail, 1, Len(trail) - 1), ret |-> "None"]

\* The entry of the log for a call with argument m that returned r and
\* left the board fields b2.
Logged(m, r, b2) ==
    Append(calls, [m |-> m, ret |-> r, pre |-> Cur, seenBefore |-> seenHashes,
                   trailBefore |-> trailMoves,
                   board |-> b2.board, currentHash |-> b2.currentHash])

\* push(m) for any m: the assert on the game-over flag comes before the
\* frame is saved.
PushAny(m) ==
    /\ Len(calls) < MaxCalls
    /\ IF gameOver
       THEN /\ ret' = "AssertionError"
            /\ calls' = Logged(m, "AssertionError", Cur)
            /\ UNCHANGED <<boardVars, seenHashes, historyMoveNames, trailMoves>>
       ELSE \E out \in play_move(Cur, seenHashes, historyMoveNames, m) :
            /\ Install(out.b)
            /\ seenHashes' = out.seenHashes
            /\ historyMoveNames' = out.historyMoveNames
            /\ trailMoves' = Append(trailMoves, pushBoard(Cur))
            /\ ret' = out.ret
            /\ calls' = Logged(m, out.ret, out.b)
    /\ op' = "push"
    /\ arg' = m
    /\ moves' = << >>
    /\ UNCHANGED undone

\* play_move(m) called directly: no frame is saved.
PlayMove(m) ==
    /\ Len(calls) < MaxCalls
    /\ \E out \in play_move(Cur, seenHashes, historyMoveNames, m) :
        /\ Install(out.b)
        /\ seenHashes' = out.seenHashes
        /\ historyMoveNames' = out.historyMoveNames
        /\ ret' = out.ret
        /\ calls' = Logged(m, out.ret, out.b)
    /\ op' = "play_move"
    /\ arg' = m
    /\ moves' = << >>
    /\ UNCHANGED <<trailMoves, undone>>

\* pop() at any time.
PopAny ==
    /\ Len(calls) < MaxCalls
    /\ \E out \in {pop(Cur, seenHashes, historyMoveNames, trailMoves)} :
        /\ Install(out.b)
        /\ seenHashes' = out.seenHashes
        /\ historyMoveNames' = out.historyMoveNames
        /\ trailMoves' = out.trailMoves
        /\ ret' = out.ret
        /\ calls' = Logged(0 - 1, out.ret, out.b)
    /\ op' = "pop"
    /\ arg' = 0 - 1
    /\ moves' = << >>
    /\ UNCHANGED undone

NextAny ==
    \/ \E m \in Cells \cup {PASS} : PushAny(m)
    \/ \E m \in Cells \cup {PASS} : PlayMove(m)
    \/ PopAny

SpecAny == Init /\ [][NextAny]_vars

\* ----------------------------------------------------------------------
\* push and pop in any order, as a search does: push(m) for an empty cell
\* or PASS, whether or not the game is over and whether or not the last
\* push was rejected, and pop() at any time.
\* ----------------------------------------------------------------------
PushFree(m) ==
    /\ Len(calls) < MaxTrailCalls
    /\ m \in empties \cup {PASS}
    /\ IF gameOver
       THEN /\ ret' = "AssertionError"
            /\ calls' = Logged(m, "AssertionError", Cur)
            /\ UNCHANGED <<boardVars, seenHashes, historyMoveNames, trailMoves>>
       ELSE \E out \in play_move(Cur, seenHashes, historyMoveNames, m) :
            /\ Install(out.b)
            /\ seenHashes' = out.seenHashes
            /\ historyMoveNames' = out.historyMoveNames
            /\ trailMoves' = Append(trailMoves, pushBoard(Cur))
            /\ ret' = out.ret
            /\ calls' = Logged(m, out.ret, out.b)
    /\ op' = "push"
    /\ arg' = m
    /\ moves' = << >>
    /\ UNCHANGED undone

PopFree ==
    /\ Len(calls) < MaxTrailCalls
    /\ \E out \in {pop(Cur, seenHashes, historyMoveNames, trailMoves)} :
        /\ Install(out.b)
        /\ seenHashes' = out.seenHashes
        /\ historyMoveNames' = out.historyMoveNames
        /\ trailMoves' = out.trailMoves
        /\ ret' = out.ret
        /\ calls' = Logged(0 - 1, out.ret, out.b)
    /\ op' = "pop"
    /\ arg' = 0 - 1
    /\ moves' = << >>
    /\ UNCHANGED undone

TrailNext ==
    \/ \E m \in Cells \cup {PASS} : PushFree(m)
    \/ PopFree

TrailSpec == Init /\ [][TrailNext]_vars

\* ----------------------------------------------------------------------
\* A game without a pass and without a pop: every call is push(m) of a
\* cell m that weak_legal_moves() lists, and only the pushes that return
\* True go on (a push that returns False has to be popped).  The caller
\* plays as long as a move goes through, as the loop of a game does.
\* ----------------------------------------------------------------------
StonePush(m) ==
    /\ ~gameOver
    /\ m \in empties
    /\ \E out \in play_move(Cur, seenHashes, historyMoveNames, m) :
        /\ out.ret = "True"
        /\ Install(out.b)
        /\ seenHashes' = out.seenHashes
        /\ historyMoveNames' = out.historyMoveNames
        /\ trailMoves' = Append(trailMoves, pushBoard(Cur))
        /\ op' = "push"
        /\ arg' = m
        /\ ret' = out.ret
        /\ moves' = << >>
        /\ calls' = Logged(m, out.ret, out.b)
        /\ undone' = << >>

StoneNext == \E m \in Cells : StonePush(m)

\* No push of a stone would be committed: StoneNext is not enabled.
StonesExhausted ==
    gameOver \/ \A m \in empties :
                    \A out \in play_move(Cur, seenHashes, historyMoveNames, m) :
                        out.ret # "True"

\* Weak fairness of StoneNext, WF_vars(StoneNext), with the state predicate
\* ~StonesExhausted written for ENABLED <<StoneNext>>_vars (a committed
\* push lengthens the history, so it always changes vars).
StoneFairness == []<>StonesExhausted \/ []<><<StoneNext>>_vars

StoneSpec == Init /\ [][StoneNext]_vars /\ StoneFairness

\* ----------------------------------------------------------------------
\* The static coordinate functions, called on their own.  op, arg and ret
\* hold the function called, its argument and its value; the board is not
\* touched.
\* ----------------------------------------------------------------------
CodecCoords == ((0 - 2) .. MaxCoord) \X ((0 - 2) .. MaxCoord)

CodecFlats == (0 - 2) .. (MaxCoord * MaxCoord)

\* The names the functions are called on: those coord_to_name makes, and
\* some strings that are no move names.
CodecNames ==
    {coord_to_name(c) : c \in CodecCoords}
        \cup {<< >>, <<"A">>, <<"I", "1">>, <<"a", "1">>, <<"A", "x">>,
              <<"A", "0", "1">>, <<"B", "+", "2">>, <<"P", "A", "S">>}

Called(f, x, value) ==
    /\ op' = f
    /\ arg' = x
    /\ ret' = value
    /\ UNCHANGED <<boardVars, seenHashes, historyMoveNames, trailMoves,
                   moves, calls, undone>>

Flatten(coord) == Called("flatten", coord, flatten(coord))

Unflatten(fcoord) == Called("unflatten", fcoord, unflatten(fcoord))

NameToCoord(s) == Called("name_to_coord", s, name_to_coord(s))

NameToFlat(s) == Called("name_to_flat", s, name_to_flat(s))

CoordToName(coord) == Called("coord_to_name", coord, coord_to_name(coord))

FlatToName(fcoord) == Called("flat_to_name", fcoord, flat_to_name(fcoord))

CodecNext ==
    \/ \E coord \in CodecCoords : Flatten(coord)
    \/ \E fcoord \in CodecFlats : Unflatten(fcoord)
    \/ \E s \in CodecNames : NameToCoord(s)
    \/ \E s \in CodecNames : NameToFlat(s)
    \/ \E coord \in CodecCoords : CoordToName(coord)
    \/ \E fcoord \in CodecFlats : FlatToName(fcoord)

CodecSpec == Init /\ [][CodecNext]_vars

\* ----------------------------------------------------------------------
\* Reference rules of the game, computed from the grid alone
\* ----------------------------------------------------------------------
Adjacent(a, b) ==
    LET dx == (a % BOARDSIZE) - (b % BOARDSIZE)
        dy == (a \div BOARDSIZE) - (b \div BOARDSIZE)
    IN dx * dx + dy * dy = 1

RECURSIVE RefGrow(_, _)
RefGrow(grid, group) ==
    LET col == grid[CHOOSE c \in group : TRUE]
        more == {x \in Cells \ group :
                    grid[x] = col /\ \E c \in group : Adjacent(x, c)}
    IN IF more = {} THEN group ELSE RefGrow(grid, group \cup more)

\* The maximal 4-connected group of like-coloured cells holding c.
RefString(grid, c) == RefGrow(grid, {c})

RefLiberties(grid, group) ==
    {e \in Cells : grid[e] = EMPTY /\ \E c \in group : Adjacent(e, c)}

\* The enemy stones left without an empty neighbour once color has played m.
RefDead(grid, m, color) ==
    LET g1 == [grid EXCEPT ![m] = color]
    IN {x \in Cells : /\ g1[x] = flip(color)
                      /\ RefLiberties(g1, RefString(g1, x)) = {}}

\* The grid after color has played m and the dead enemy stones are gone.
RefPlaced(grid, m, color) ==
    [x \in Cells |-> IF x = m THEN color
                     ELSE IF x \in RefDead(grid, m, color) THEN EMPTY
                     ELSE grid[x]]

RefSuicide(grid, m, color) ==
    LET g2 == RefPlaced(grid, m, color)
    IN RefLiberties(g2, RefString(g2, m)) = {}

\* The entries of calls whose push was committed.
Committed == {i \in 1 .. Len(calls) : calls[i].ret = "True"}

lastCall == calls[Len(calls)]

\* The last operation was a push that committed a stone move.
StonePushed == op = "push" /\ ret = "True" /\ arg # PASS

\* ----------------------------------------------------------------------
\* Claims
\* ----------------------------------------------------------------------

\* C1: positional super-ko.  No committed stone move on the current path
\* leaves a grid equal to the grid left by an earlier committed move of the
\* path, and legal_moves() offers no stone move that would recreate such
\* a grid.
C1_PositionalSuperKo ==
    /\ \A i, j \in Committed :
          (i < j /\ calls[j].m # PASS) => calls[j].board # calls[i].board
    /\ \A m \in Elems(legal_moves(Cur, seenHashes).moves) \ {PASS} :
          \A i \in Committed : RefPlaced(board, m, nextPlayer) # calls[i].board

\* The fields the round trip of C2 speaks about.
Listed(b) ==
    <<b.board, b.currentHash, b.nbWHITE, b.nbBLACK, b.capturedWHITE,
      b.capturedBLACK, b.nextPlayer, b.lastPlayerHasPassed, b.gameOver>>

\* C2: push/pop round trip.  A pop that undoes a successful push leaves
\* the grid, the hash, the stone and captured counts, the side to move and
\* both flags as they were when that push was called; N pops after N
\* successful pushes therefore give back the state before the first push.
C2_PushPopRoundTrip ==
    (op = "pop" /\ undone.ret = "True") => Listed(Cur) = Listed(undone.pre)

\* A pop has just undone a committed stone move that captured stones.
C2_Witness ==
    /\ op = "pop"
    /\ undone.ret = "True"
    /\ undone.m # PASS
    /\ \E c \in Cells : undone.pre.board[c] # EMPTY /\ undone.board[c] = EMPTY

\* C3: a rejected push has no side effect on the position.  When push
\* returns False the grid, the hash, the seen-hash set, the empty-cell set,
\* the counts, the side to move, both flags and every liberty count and
\* size are what they were before the call, and one frame has been added.
C3_RejectedPushNoEffect ==
    [][(op' = "push" /\ ret' = "False") =>
          /\ board' = board
          /\ currentHash' = currentHash
          /\ seenHashes' = seenHashes
          /\ empties' = empties
          /\ nbWHITE' = nbWHITE /\ nbBLACK' = nbBLACK
          /\ capturedWHITE' = capturedWHITE /\ capturedBLACK' = capturedBLACK
          /\ nextPlayer' = nextPlayer
          /\ lastPlayerHasPassed' = lastPlayerHasPassed
          /\ gameOver' = gameOver
          /\ stringLiberties' = stringLiberties
          /\ stringSizes' = stringSizes
          /\ Len(trailMoves') = Len(trailMoves) + 1]_vars

\* A push has just been rejected on a board that holds stones.
C3_Witness ==
    /\ op = "push"
    /\ ret = "False"
    /\ arg # PASS
    /\ \E c \in Cells : board[c] # EMPTY

\* C4: probe and undo.  After a push that returned False and the pop that
\* follows it, the whole board state and the seen-hash set are what they
\* were before the push; the hash of the current position is still in the
\* seen-hash set if it was there.
C4_ProbeAndUndo ==
    (op = "pop" /\ undone.ret = "False") =>
        /\ Cur = undone.pre
        /\ seenHashes = undone.seenBefore

\* C5: the seen-hash set tracks the current path.  It is exactly the set
\* of the hashes of the positions produced by the committed moves that
\* have not been undone.
C5_SeenTracksPath ==
    seenHashes = {calls[i].currentHash : i \in Committed}

\* C6: legal_moves() agrees with push.  When the caller has just called
\* legal_moves() and then pushes a move of weak_legal_moves(), the push
\* returns True if the move is in the list legal_moves() returned and False
\* if it is not.
C6_LegalMovesAgreeWithPush ==
    [][(op = "legal_moves" /\ ret = "list" /\ op' = "push") =>
          (ret' = IF arg' \in Elems(moves) THEN "True" ELSE "False")]_vars

\* A push has just been rejected although weak_legal_moves() offered it,
\* while legal_moves() of the position pushed from does not offer it.
C6_Witness ==
    /\ op = "push"
    /\ ret = "False"
    /\ arg \in Elems(weak_legal_moves(lastCall.pre).moves)
    /\ arg \notin Elems(legal_moves(lastCall.pre, lastCall.seenBefore).moves)

\* C7: capture happens inside the move.  After a successful push no string
\* on the board is without an empty neighbouring cell, and every enemy
\* stone whose string lost its last liberty to the placed stone is already
\* off the grid.
C7_CaptureInsideMove ==
    (op = "push" /\ ret = "True") =>
        /\ \A c \in Cells :
              board[c] # EMPTY => RefLiberties(board, RefString(board, c)) # {}
        /\ arg # PASS =>
              \A x \in RefDead(lastCall.pre.board, arg, lastCall.pre.nextPlayer) :
                  board[x] = EMPTY

\* A committed stone move has just captured an enemy string of two stones
\* or more.
C7_Witness ==
    /\ StonePushed
    /\ Cardinality(RefDead(lastCall.pre.board, arg, lastCall.pre.nextPlayer)) >= 2

\* C8: the suicide rule against the reference.  For every empty cell m,
\* _is_suicide(m, side to move) is True exactly when the stone placed on m
\* would, after the removal of the enemy strings it leaves without empty
\* neighbour, belong to a string without empty neighbour; neither move
\* generator returns such a cell.
C8_SuicideMatchesReference ==
    /\ \A m \in empties :
          is_suicide(Cur, m, nextPlayer).ret = RefSuicide(board, m, nextPlayer)
    /\ \A m \in (Elems(weak_legal_moves(Cur).moves)
                   \cup Elems(legal_moves(Cur, seenHashes).moves)) \ {PASS} :
          ~RefSuicide(board, m, nextPlayer)

\* Some empty cell is surrounded by enemy stones only and playing it
\* captures nothing: the lone stone is a suicide and is not offered.
C8_Witness ==
    \E m \in empties :
        /\ \A n \in Cells : Adjacent(m, n) => board[n] = flip(nextPlayer)
        /\ RefDead(board, m, nextPlayer) = {}
        /\ is_suicide(Cur, m, nextPlayer).ret
        /\ m \notin Elems(weak_legal_moves(Cur).moves)

\* C9: effect of a capture on the grid and the counters.  When a
\* successful push by colour c captures k enemy stones, exactly those k
\* cells become empty and re-enter the empty-cell set, the enemy's on-board
\* count drops by k, the counter of captured enemy stones rises by k, c's
\* on-board count rises by 1, and no cell changes but these and the cell
\* played.
C9_CaptureEffect ==
    [][(op' = "push" /\ ret' = "True" /\ arg' # PASS
          /\ RefDead(board, arg', nextPlayer) # {}) =>
          LET m == arg'
              dead == RefDead(board, m, nextPlayer)
              k == Cardinality(dead)
          IN /\ board' = [x \in Cells |-> IF x = m THEN nextPlayer
                                          ELSE IF x \in dead THEN EMPTY
                                          ELSE board[x]]
             /\ empties' = (empties \ {m}) \cup dead
             /\ IF nextPlayer = BLACK
                THEN /\ nbWHITE' = nbWHITE - k
                     /\ capturedWHITE' = capturedWHITE + k
                     /\ nbBLACK' = nbBLACK + 1
                     /\ capturedBLACK' = capturedBLACK
                ELSE /\ nbBLACK' = nbBLACK - k
                     /\ capturedBLACK' = capturedBLACK + k
                     /\ nbWHITE' = nbWHITE + 1
                     /\ capturedWHITE' = capturedWHITE]_vars

\* A committed stone move has just captured at least two stones.
C9_Witness ==
    /\ StonePushed
    /\ Cardinality(RefDead(lastCall.pre.board, arg, lastCall.pre.nextPlayer)) >= 2
    /\ capturedWHITE + capturedBLACK
          >= lastCall.pre.capturedWHITE + lastCall.pre.capturedBLACK + 2

\* The liberty array between _put_stone and the captures of the push of
\* the stone move m from the state b.
libertiesAfterPut(b, m) == put_stone(b, m, b.nextPlayer).b.stringLiberties

\* The stones of the string of root r (in the primed state) that touch the
\* cell f.
touching(grid, uf, r, f) ==
    {x \in Cells : /\ grid[x] # EMPTY
                   /\ Adjacent(x, f)
                   /\ getStringOfStone(uf, x) = r}

\* The last step is a committed stone move that captured exactly one stone.
OneStoneCaptured ==
    /\ op' = "push" /\ ret' = "True" /\ arg' # PASS
    /\ Cardinality(RefDead(board, arg', nextPlayer)) = 1

freedCell == CHOOSE f \in RefDead(board, arg', nextPlayer) : TRUE

\* The roots of the strings that remain next to the freed cell.
rootsAtFreed ==
    {getStringOfStone(stringUnionFind', x) :
        x \in {y \in Cells : board'[y] # EMPTY /\ Adjacent(y, freedCell)}}

\* C10 as stated: when a single enemy stone is captured, the liberty count
\* of every remaining string next to the freed cell rises by exactly one,
\* however many of its stones touch the freed cell.
C10_LibertyPlusOne ==
    [][OneStoneCaptured =>
          \A r \in rootsAtFreed :
              stringLiberties'[r] = libertiesAfterPut(Cur, arg')[r] + 1]_vars

\* C10 as amended: when a single enemy stone is captured, the liberty count
\* of every remaining string next to the freed cell rises by the number of
\* that string's stones that touch the freed cell.
C10_LibertyPerTouchingStone ==
    [][OneStoneCaptured =>
          \A r \in rootsAtFreed :
              stringLiberties'[r] = libertiesAfterPut(Cur, arg')[r]
                  + Cardinality(touching(board', stringUnionFind', r, freedCell))]_vars

\* A committed stone move has just captured exactly one stone, and one
\* remaining string touches the freed cell with two stones.
C10_Witness ==
    /\ StonePushed
    /\ Cardinality(RefDead(lastCall.pre.board, arg, lastCall.pre.nextPlayer)) = 1
    /\ \E f \in RefDead(lastCall.pre.board, arg, lastCall.pre.nextPlayer) :
          \E x, y \in Cells :
              /\ x # y
              /\ board[x] # EMPTY /\ board[y] # EMPTY
              /\ Adjacent(x, f) /\ Adjacent(y, f)
              /\ getStringOfStone(stringUnionFind, x) = getStringOfStone(stringUnionFind, y)

\* The entry i of calls is a committed pass.
PassCommitted(i) == calls[i].ret = "True" /\ calls[i].m = PASS

\* C11: game end by passes.  The game is over exactly when the last two
\* committed moves of the path are passes; a committed stone move clears
\* the last-player-passed flag and never sets game-over; a rejected push
\* changes neither flag.
C11_GameEndByPasses ==
    /\ gameOver <=> /\ Len(calls) >= 2
                    /\ PassCommitted(Len(calls))
                    /\ PassCommitted(Len(calls) - 1)
    /\ (op = "push" /\ ret = "True" /\ arg # PASS) =>
           /\ ~lastPlayerHasPassed
           /\ gameOver = lastCall.pre.gameOver
    /\ (op = "push" /\ ret = "False") =>
           /\ lastPlayerHasPassed = lastCall.pre.lastPlayerHasPassed
           /\ gameOver = lastCall.pre.gameOver

\* The game has just ended by a second pass, after a stone move and a pass
\* that a stone move had followed.
C11_Witness ==
    /\ op = "push" /\ arg = PASS /\ gameOver
    /\ \E i, j \in 1 .. Len(calls) :
          /\ i < j
          /\ PassCommitted(i)
          /\ calls[j].ret = "True" /\ calls[j].m # PASS

\* The hash of a grid alone: the initial hash XORed with the constant of
\* every occupied (cell, colour) pair.
GridHash(grid) ==
    initialHash \cup {<<c, grid[c]>> : c \in {d \in Cells : grid[d] # EMPTY}}

\* The pass constant of the most recent committed move of the path when
\* that move is a pass, and nothing otherwise.
LastPassConstant ==
    IF Committed = {} THEN {}
    ELSE LET i == CHOOSE k \in Committed : \A j \in Committed : j <= k
         IN  IF calls[i].m # PASS THEN {}
             ELSE IF calls[i].pre.nextPlayer = BLACK THEN passHashB
                                                    ELSE passHashW

\* C12: the hash is a function of the grid and of the last-pass flavour.
\* In every reachable state the current hash is the hash of the grid,
\* XORed with a pass constant only when the most recent committed move is
\* a pass by that colour.
C12_HashOfGridAndLastPass ==
    currentHash = Xor(GridHash(board), LastPassConstant)

\* What a call gives back when it ends normally.
Returned == {"True", "False", "None", "list"}

\* C13: playing on an occupied cell is a loud usage error.  push(m) or
\* play_move(m) with m a cell that holds a stone ends with an error, never
\* with a returned value, and leaves the grid, the hash, the empty-cell set
\* and the string registry as they were.
C13_OccupiedCellIsLoudError ==
    (op \in {"push", "play_move"} /\ arg \in Cells
        /\ lastCall.pre.board[arg] # EMPTY) =>
       /\ ret \notin Returned
       /\ board = lastCall.pre.board
       /\ currentHash = lastCall.pre.currentHash
       /\ empties = lastCall.pre.empties
       /\ stringUnionFind = lastCall.pre.stringUnionFind
       /\ stringLiberties = lastCall.pre.stringLiberties
       /\ stringSizes = lastCall.pre.stringSizes

\* C14: playing after game-over is a loud usage error.  Once the game is
\* over, push(m) and play_move(m) end with an error for every m and change
\* no field of the board, nor the seen set, nor the trail.
C14_GameOverIsLoudError ==
    (op \in {"push", "play_move"} /\ lastCall.pre.gameOver) =>
       /\ ret \notin Returned
       /\ Cur = lastCall.pre
       /\ seenHashes = lastCall.seenBefore
       /\ trailMoves = lastCall.trailBefore

\* C15: popping an empty trail is a loud usage error.  pop() with no frame
\* on the trail ends with an error and leaves the grid, the hash, the seen
\* set, the counts, the flags and the registry as they were.
C15_PopEmptyTrailIsLoudError ==
    (op = "pop" /\ lastCall.trailBefore = << >>) =>
       /\ ret \notin Returned
       /\ Cur = lastCall.pre
       /\ seenHashes = lastCall.seenBefore

\* pop() has been called on an empty trail with stones on the board and
\* the current hash in the seen set.
C15_Witness ==
    /\ op = "pop"
    /\ lastCall.trailBefore = << >>
    /\ ret = "IndexError"
    /\ currentHash \in seenHashes
    /\ \E c \in Cells : board[c] # EMPTY

\* The empty cells of the maximal 4-connected empty regions whose
\* neighbouring stones have exactly the colours of the set colours.
RefArea(grid, colours) ==
    {e \in Cells :
        /\ grid[e] = EMPTY
        /\ {grid[x] : x \in {y \in Cells : /\ grid[y] # EMPTY
                                            /\ \E c \in RefString(grid, e) :
                                                   Adjacent(y, c)}} = colours}

\* The stones of a colour on the grid.
RefStones(grid, color) == Cardinality({c \in Cells : grid[c] = color})

\* C16: result() agrees with compute_score().  With (black, white) the
\* pair compute_score() returns, result() is "1-0" exactly when white is
\* above black, "0-1" exactly when black is above white and "1/2-1/2"
\* exactly when they are equal; each score is the colour's stones on the
\* board plus the empty cells of the regions touching that colour only.
C16_ResultAgreesWithScore ==
    /\ op = "result" =>
           \A score \in compute_score(Cur) :
               /\ score.assertOk
               /\ (ret = "1-0") <=> (score.value[2] > score.value[1])
               /\ (ret = "0-1") <=> (score.value[1] > score.value[2])
               /\ (ret = "1/2-1/2") <=> (score.value[1] = score.value[2])
    /\ op = "compute_score" =>
           /\ ret = "tuple"
           /\ moves[1] = RefStones(board, BLACK)
                             + Cardinality(RefArea(board, {BLACK}))
           /\ moves[2] = RefStones(board, WHITE)
                             + Cardinality(RefArea(board, {WHITE}))

\* result() has named white the winner with stones of both colours
\* played on the path.
C16_Witness ==
    /\ op = "result"
    /\ ret = "1-0"
    /\ nbWHITE > 0
    /\ \E i \in Committed : calls[i].m # PASS /\ calls[i].pre.nextPlayer = BLACK

\* C17: area counting against a reference.  _count_areas() returns
\* (a, b, o): a the empty cells of the regions next to black stones only,
\* b the same for white, o those of the regions next to both colours or to
\* none; a + b + o is the number of empty cells, and the empty board gives
\* (0, 0, N).
C17_AreasMatchReference ==
    op = "_count_areas" =>
        /\ ret = "tuple"
        /\ moves = <<Cardinality(RefArea(board, {BLACK})),
                     Cardinality(RefArea(board, {WHITE})),
                     Cardinality(RefArea(board, {BLACK, WHITE})
                                    \cup RefArea(board, {}))>>
        /\ moves[1] + moves[2] + moves[3]
               = Cardinality({e \in Cells : board[e] = EMPTY})
        /\ (\A c \in Cells : board[c] = EMPTY) => moves = <<0, 0, NbCells>>

\* _count_areas() has counted a region next to one colour only while
\* stones of both colours have been played on the path.
C17_Witness ==
    /\ op = "_count_areas"
    /\ moves[1] + moves[2] > 0
    /\ \E i, j \in Committed :
          /\ calls[i].m # PASS /\ calls[j].m # PASS
          /\ calls[i].pre.nextPlayer # calls[j].pre.nextPlayer

\* _count_areas() has counted regions next to both colours.
C17_WitnessBoth ==
    /\ op = "_count_areas"
    /\ moves[3] > 0
    /\ \E c \in Cells : board[c] # EMPTY

\* The four corner cells.
Corners ==
    {flatten(<<x, y>>) : x \in {0, BOARDSIZE - 1}, y \in {0, BOARDSIZE - 1}}

\* The only frame on the trail is a stone the first player pushed with
\* success on a corner of the fresh board.
CornerOpening ==
    /\ Len(calls) = 1
    /\ calls[1].ret = "True"
    /\ calls[1].m \in Corners
    /\ calls[1].seenBefore = {}
    /\ calls[1].pre.nextPlayer = BLACK
    /\ \A c \in Cells : calls[1].pre.board[c] = EMPTY

\* C18: opening scenario.  On a fresh board, once the first player has
\* pushed a stone on a corner, legal_moves() for the second player holds
\* each of the other N - 1 cells exactly once, and Pass: N entries.
C18_OpeningLegalMoves ==
    (op = "legal_moves" /\ CornerOpening) =>
        /\ ret = "list"
        /\ Len(moves) = NbCells
        /\ \A c \in (Cells \ {calls[1].m}) \cup {PASS} :
              Cardinality({k \in 1 .. Len(moves) : moves[k] = c}) = 1

\* legal_moves() has been called for the second player after the corner
\* opening.
C18_Witness ==
    /\ op = "legal_moves"
    /\ CornerOpening
    /\ nextPlayer = WHITE
    /\ board[calls[1].m] = BLACK

\* C19: Pass is always available and only touches the turn state.  In
\* every reachable state legal_moves() and weak_legal_moves() hold Pass;
\* push(Pass) with the game not over returns True, leaves the grid, the
\* empty-cell set, the stone and captured counts and every string's
\* liberties and size as they were, XORs the hash with the pass constant
\* of the passing colour, and flips the side to move.
C19_PassOnlyTouchesTurnState ==
    /\ PASS \in Elems(legal_moves(Cur, seenHashes).moves)
    /\ PASS \in Elems(weak_legal_moves(Cur).moves)
    /\ op \in {"legal_moves", "weak_legal_moves"} =>
           ret = "list" /\ PASS \in Elems(moves)
    /\ (op = "push" /\ arg = PASS) =>
           /\ ret = "True"
           /\ board = lastCall.pre.board
           /\ empties = lastCall.pre.empties
           /\ nbBLACK = lastCall.pre.nbBLACK
           /\ nbWHITE = lastCall.pre.nbWHITE
           /\ capturedBLACK = lastCall.pre.capturedBLACK
           /\ capturedWHITE = lastCall.pre.capturedWHITE
           /\ stringLiberties = lastCall.pre.stringLiberties
           /\ stringSizes = lastCall.pre.stringSizes
           /\ currentHash =
                  Xor(lastCall.pre.currentHash,
                      IF lastCall.pre.nextPlayer = BLACK THEN passHashB
                                                        ELSE passHashW)
           /\ nextPlayer = flip(lastCall.pre.nextPlayer)

\* White has just passed with stones of both colours on the board, in a
\* position whose hash already held white's pass constant.
C19_Witness ==
    /\ op = "push" /\ arg = PASS /\ ret = "True"
    /\ lastCall.pre.nextPlayer = WHITE
    /\ \E c, d \in Cells : board[c] = BLACK /\ board[d] = WHITE
    /\ passHashW \subseteq lastCall.pre.currentHash

\* The coordinates of the cells of the board.
OnBoard == {c \in CodecCoords : isOnBoard(c[1], c[2])}

\* C20: coordinate round trips.  unflatten undoes flatten on every cell
\* of the board and flatten undoes unflatten on 0 .. N-1; name_to_coord
\* undoes coord_to_name and name_to_flat undoes flat_to_name on every cell
\* of the board; Pass goes (-1,-1) <-> -1 <-> "PASS" through all of them.
\* The names do not depend on the side of the board, and the formula takes
\* name_to_coord after coord_to_name over the nine columns that have a
\* letter, which covers the cells of the board of side 9.
C20_CoordinateRoundTrips ==
    /\ (op = "flatten" /\ arg \in OnBoard) => unflatten(ret) = arg
    /\ (op = "unflatten" /\ arg \in Cells) =>
           ret \in OnBoard /\ flatten(ret) = arg
    /\ (op = "coord_to_name"
           /\ (arg \in OnBoard
                  \/ (arg[1] \in 0 .. (Len(letterIndex) - 1) /\ arg[2] >= 0))) =>
           name_to_coord(ret) = arg
    /\ (op = "flat_to_name" /\ arg \in Cells) => name_to_flat(ret) = arg
    /\ (op = "flatten" /\ arg = <<0 - 1, 0 - 1>>) => ret = 0 - 1
    /\ (op = "unflatten" /\ arg = 0 - 1) => ret = <<0 - 1, 0 - 1>>
    /\ (op = "coord_to_name" /\ arg = <<0 - 1, 0 - 1>>) => ret = PassName
    /\ (op = "flat_to_name" /\ arg = 0 - 1) => ret = PassName
    /\ (op = "name_to_coord" /\ arg = PassName) => ret = <<0 - 1, 0 - 1>>
    /\ (op = "name_to_flat" /\ arg = PassName) => ret = 0 - 1

\* flat_to_name has named the last cell of the board, a letter and a row,
\* and name_to_flat reads the name back.
C20_Witness ==
    /\ op = "flat_to_name"
    /\ arg = NbCells - 1
    /\ Len(ret) >= 2
    /\ ret[1] = letterIndex[BOARDSIZE]
    /\ name_to_flat(ret) = arg

\* The names whose column letter is in the dictionary and whose row, read
\* by int, is a row of the board.
WellFormed ==
    {s \in CodecNames :
        /\ s # << >>
        /\ s[1] \in DOMAIN indexLetters
        /\ isInt(SubSeq(s, 2, Len(s)))
        /\ int(SubSeq(s, 2, Len(s))) \in 1 .. BOARDSIZE}

\* C21: malformed move names are rejected.  name_to_coord and name_to_flat
\* end with an error for every name, other than PASS, whose column letter
\* is not one of A-H, J or whose row is not in 1 .. side; a name whose
\* letter is a column of the board never gives a coordinate or a flat index
\* off the board.
C21_MalformedNamesRejected ==
    (op \in {"name_to_coord", "name_to_flat"} /\ arg # PassName) =>
        /\ arg \notin WellFormed => Len(name_to_coord(arg)) = 1
        /\ (arg # << >> /\ arg[1] \in DOMAIN indexLetters
               /\ indexLetters[arg[1]] < BOARDSIZE
               /\ Len(name_to_coord(arg)) = 2) =>
              /\ isOnBoard(name_to_coord(arg)[1], name_to_coord(arg)[2])
              /\ op = "name_to_flat" => ret \in Cells

\* The pairs (s, e) of a stone s of the group and an empty cell e next
\* to it.
RefPseudoLiberties(grid, group) ==
    {p \in group \X Cells : grid[p[2]] = EMPTY /\ Adjacent(p[1], p[2])}

\* The liberty count stored at the root of the string of the stone c.
StoredLiberties(c) == stringLiberties[getStringOfStone(stringUnionFind, c)]

\* C22: pseudo-liberty invariant.  For every string on the board, the
\* liberty count stored at its root is the number of pairs (s, e) with s
\* a stone of the string, e an empty cell and s next to e.
C22_PseudoLiberties ==
    \A c \in Cells :
        board[c] # EMPTY =>
            StoredLiberties(c)
                = Cardinality(RefPseudoLiberties(board, RefString(board, c)))

\* A committed stone move has just left a string of three stones whose
\* single empty neighbour is counted once for each of the two stones that
\* touch it, next to a capture made earlier on the path.
C22_Witness ==
    /\ StonePushed
    /\ Cardinality(RefString(board, arg)) >= 3
    /\ StoredLiberties(arg) = 2
    /\ Cardinality(RefLiberties(board, RefString(board, arg))) = 1
    /\ capturedBLACK + capturedWHITE > 0

\* C23: the maintained liberties are a sound zero test.  For every string
\* on the board the stored liberty count is at least the number of
\* distinct empty cells next to the string, and it is 0 exactly when that
\* number is 0.
C23_LibertiesSoundZeroTest ==
    \A c \in Cells :
        board[c] # EMPTY =>
            /\ StoredLiberties(c)
                  >= Cardinality(RefLiberties(board, RefString(board, c)))
            /\ (StoredLiberties(c) = 0)
                  <=> (RefLiberties(board, RefString(board, c)) = {})

\* A committed stone move has just captured, and a string of the mover
\* that touches the freed cell with two stones stores more liberties than
\* it has empty neighbours.
C23_Witness ==
    /\ StonePushed
    /\ RefDead(lastCall.pre.board, arg, lastCall.pre.nextPlayer) # {}
    /\ \E c \in Cells :
          /\ board[c] = lastCall.pre.nextPlayer
          /\ StoredLiberties(c)
                > Cardinality(RefLiberties(board, RefString(board, c)))

RECURSIVE RootWithin(_, _, _)
\* The root reached from c in at most k steps along the parent pointers,
\* or -2 when none is reached.
RootWithin(uf, c, k) ==
    IF uf[c] = 0 - 1 THEN c
    ELSE IF k = 0 THEN 0 - 2
    ELSE RootWithin(uf, uf[c], k - 1)

\* The parent pointers lead from every cell to a root.
Forest(uf) == \A c \in Cells : RootWithin(uf, c, NbCells) \in Cells

\* C24: the union-find classes are exactly the strings.  The parent
\* pointers form a forest; two occupied cells have the same root exactly
\* when they hold the same colour and are joined by a path of cells of that
\* colour; _breadthSearchString(c) is the set of cells with the root of c.
C24_ClassesAreStrings ==
    /\ Forest(stringUnionFind)
    /\ \A c, d \in Cells :
          (board[c] # EMPTY /\ board[d] # EMPTY) =>
              ((getStringOfStone(stringUnionFind, c)
                   = getStringOfStone(stringUnionFind, d))
                <=> d \in RefString(board, c))
    /\ \A c \in Cells :
          board[c] # EMPTY =>
              breadthSearchString(board, c)
                  = {d \in Cells : /\ board[d] # EMPTY
                                   /\ getStringOfStone(stringUnionFind, d)
                                         = getStringOfStone(stringUnionFind, c)}

\* A pop has just brought back a position with a string of two stones or
\* more next to a string of the other colour, after a capture was undone.
C24_Witness ==
    /\ op = "pop"
    /\ undone.ret = "True"
    /\ undone.m \in Cells
    /\ RefDead(undone.pre.board, undone.m, undone.pre.nextPlayer) # {}
    /\ \E c, d \in Cells :
          /\ c # d /\ board[c] # EMPTY /\ d \in RefString(board, c)
          /\ \E e \in Cells : board[e] = flip(board[c])

\* The roots _is_super_ko(m, color) finds without a liberty on the record b.
PredictedDead(b, m, color) ==
    LET dead(acc) == {s \in DOMAIN acc.libertiesOpponents :
                         acc.libertiesOpponents[s] = 0}
    IN dead(superKoSurvey(b, m, flip(color), 1,
                [uf |-> b.stringUnionFind, libertiesOpponents |-> << >>]))

\* The simulation of m by _is_super_ko on the record b agrees with
\* _put_stone followed by the captures, as play_move runs them.
SimulationAgrees(b, seenH, m) ==
    LET applied(sk, ps) ==
            /\ sk.assertOk
            /\ ps.assertOk
            /\ {ps.captured[k] : k \in 1 .. Len(ps.captured)}
                   = PredictedDead(b, m, b.nextPlayer)
            /\ \A b2 \in captureAll({ps.b}, ps.captured, 1) :
                   b2.currentHash = sk.tmpHash
        simulated(sk) ==
            applied(sk, put_stone([b EXCEPT !.stringUnionFind = sk.uf],
                                  m, b.nextPlayer))
    IN simulated(is_super_ko(b, seenH, m, b.nextPlayer))

\* C25: simulated hash equals committed hash.  For every empty cell m, the
\* hash _is_super_ko(m, side to move) predicts is the hash after _put_stone
\* and the captures, the strings it predicts as captured are the strings
\* captured, and no assertion fails; the only assertion a call returns by
\* is the one push makes on the game-over flag.
C25_SimulatedHashIsCommittedHash ==
    /\ ret = "AssertionError" => (op = "push" /\ lastCall.pre.gameOver)
    /\ \A m \in Cells : board[m] = EMPTY => SimulationAgrees(Cur, seenHashes, m)

\* A stone move that captured has been committed, with the hash and the
\* captured strings its simulation predicted.
C25_Witness ==
    /\ StonePushed
    /\ PredictedDead(lastCall.pre, arg, lastCall.pre.nextPlayer) # {}
    /\ RefDead(lastCall.pre.board, arg, lastCall.pre.nextPlayer) # {}
    /\ currentHash = is_super_ko(lastCall.pre, lastCall.seenBefore, arg,
                                 lastCall.pre.nextPlayer).tmpHash
    /\ \E m \in Cells : board[m] = EMPTY /\ PredictedDead(Cur, m, nextPlayer) # {}

\* The grids left by the committed moves of the path are pairwise distinct.
GridsDistinct ==
    \A i, j \in 1 .. Len(calls) : i # j => calls[i].board # calls[j].board

\* C26: no repetition without passes.  Along a path of committed stone
\* pushes alone the grids after the moves are pairwise distinct, and the
\* path comes to an end: a position is reached where legal_moves() is
\* [PASS] and no push of a stone is committed.
C26_NoRepetitionWithoutPasses ==
    /\ []GridsDistinct
    /\ <>(StonesExhausted /\ legal_moves(Cur, seenHashes).moves = <<PASS>>)

\* The end of a path of twenty or more stones: a capture has happened, a
\* cell is empty, and every stone that could be pushed is rejected.
C26_Witness ==
    /\ StonePushed
    /\ StonesExhausted
    /\ legal_moves(Cur, seenHashes).moves = <<PASS>>
    /\ empties # {}
    /\ capturedBLACK + capturedWHITE > 0
    /\ Len(calls) >= 20
    /\ \A i \in 1 .. Len(calls) : calls[i].m # PASS /\ calls[i].ret = "True"

\* C27: pop restores all derived data.  After the pop that matches a push,
\* committed or rejected, the parent array, the liberty array, the size
\* array and the set of empty cells are what they were when push was
\* called, and so is every other field of the frame.
C27_PopRestoresDerivedData ==
    (op = "pop" /\ undone # << >>) =>
        /\ stringUnionFind = undone.pre.stringUnionFind
        /\ stringLiberties = undone.pre.stringLiberties
        /\ stringSizes = undone.pre.stringSizes
        /\ empties = undone.pre.empties
        /\ Cur = undone.pre

\* A pop has undone a committed capture of two stones or more that was
\* pushed on a trail that is not empty; the restored size array and
\* liberty array differ.
C27_Witness ==
    /\ op = "pop"
    /\ undone.ret = "True"
    /\ undone.m \in Cells
    /\ trailMoves # << >>
    /\ undone.board # board
    /\ Cardinality(undone.pre.empties) + 1 < Cardinality({c \in Cells : undone.board[c] = EMPTY})
    /\ stringSizes # stringLiberties

\* A pop has undone a push that was rejected.
C27_WitnessRejected == op = "pop" /\ undone.ret = "False" /\ stringSizes # stringLiberties

\* The cells of the grid that hold colour.
CellsOf(grid, colour) == {c \in Cells : grid[c] = colour}

\* C28: the counters agree with the grid.  nbBLACK and nbWHITE are the
\* numbers of black and white cells, and the set of empty cells holds
\* exactly the cells that are EMPTY.
C28_CountersAgreeWithGrid ==
    /\ nbBLACK = Cardinality(CellsOf(board, BLACK))
    /\ nbWHITE = Cardinality(CellsOf(board, WHITE))
    /\ empties = CellsOf(board, EMPTY)

\* A committed move has captured two stones or more, and stones of both
\* colours are left on the board.
C28_Witness ==
    /\ StonePushed
    /\ Cardinality(CellsOf(lastCall.pre.board, EMPTY))
           < Cardinality(CellsOf(board, EMPTY))
    /\ nbBLACK + nbWHITE > 0
    /\ capturedBLACK > 0
    /\ capturedWHITE > 0

\* The committed stone moves of colour on the current path.
StoneMovesOf(colour) ==
    {i \in 1 .. Len(calls) : /\ calls[i].ret = "True"
                             /\ calls[i].m # PASS
                             /\ calls[i].pre.nextPlayer = colour}

\* Every stone played on the current path is on the board or counted as
\* captured.
StonesConserved ==
    /\ Cardinality(StoneMovesOf(BLACK)) = nbBLACK + capturedBLACK
    /\ Cardinality(StoneMovesOf(WHITE)) = nbWHITE + capturedWHITE

\* The captured counters do not go down, except by a pop.
CapturedOnlyLoweredByPop ==
    (capturedBLACK' < capturedBLACK \/ capturedWHITE' < capturedWHITE)
        => op' = "pop"

\* C29: conservation of stones.  For each colour, the number of committed
\* stone moves of that colour on the current path is its number of stones
\* on the board plus its captured counter; the captured counters never
\* decrease along committed moves and are lowered by pop alone.
C29_StonesConserved ==
    /\ []StonesConserved
    /\ [][CapturedOnlyLoweredByPop]_vars

\* Stones of both colours have been captured on the current path, the last
\* move captured, and a pass and stones on the board are part of the path.
C29_Witness ==
    /\ StonePushed
    /\ capturedBLACK > 0
    /\ capturedWHITE > 0
    /\ capturedBLACK + capturedWHITE
           > lastCall.pre.capturedBLACK + lastCall.pre.capturedWHITE
    /\ nbBLACK + nbWHITE > 1
    /\ \E i \in 1 .. Len(calls) : calls[i].m = PASS

\* The roots of the strings of colour next to the cell m on the record b.
FriendRoots(b, m, colour) ==
    {getStringOfStone(b.stringUnionFind, fn) :
        fn \in {x \in Cells : Adjacent(m, x) /\ b.board[x] = colour}}

RECURSIVE SumSizes(_, _)
\* The sum of the sizes stored at the roots.
SumSizes(sizes, roots) ==
    IF roots = {} THEN 0
    ELSE LET r == CHOOSE r \in roots : TRUE
         IN sizes[r] + SumSizes(sizes, roots \ {r})

\* C30: string sizes.  The size stored at the root of a string is the
\* number of its stones, and after a committed stone move the size at the
\* root of the placed stone is 1 plus the sum of the sizes of the friendly
\* strings it joined.
C30_SizesAreStoneCounts ==
    /\ \A c \in Cells :
          board[c] # EMPTY =>
              stringSizes[getStringOfStone(stringUnionFind, c)]
                  = Cardinality(RefString(board, c))
    /\ StonePushed =>
          stringSizes[getStringOfStone(stringUnionFind, arg)]
              = 1 + SumSizes(lastCall.pre.stringSizes,
                             FriendRoots(lastCall.pre, arg, lastCall.pre.nextPlayer))

\* The stone just placed has joined two strings of its colour.
C30_Witness ==
    /\ StonePushed
    /\ Cardinality(FriendRoots(lastCall.pre, arg, lastCall.pre.nextPlayer)) = 2
    /\ stringSizes[getStringOfStone(stringUnionFind, arg)] = 3
    /\ getStringOfStone(stringUnionFind, arg) # arg

\* The occupied cells that are roots are the ones with an active entry,
\* and the other occupied cells have the sentinel in both arrays.
RootsAreActive ==
    \A c \in Cells :
        board[c] # EMPTY =>
            /\ (stringUnionFind[c] = 0 - 1)
                   <=> (stringLiberties[c] >= 0 /\ stringSizes[c] >= 1)
            /\ stringUnionFind[c] # 0 - 1
                   => (stringLiberties[c] = 0 - 1 /\ stringSizes[c] = 0 - 1)

\* An inactive entry of a cell that stays occupied becomes active again by
\* a pop alone.
InactiveStaysInactive ==
    \A c \in Cells :
        (/\ board[c] # EMPTY
         /\ board'[c] # EMPTY
         /\ (stringLiberties[c] < 0 \/ stringSizes[c] < 0)
         /\ (stringLiberties'[c] >= 0 \/ stringSizes'[c] >= 0))
            => op' = "pop"

\* C31: absorbed roots stay inactive.  An occupied cell is a root exactly
\* when its stored liberties are >= 0 and its stored size is >= 1, every
\* occupied cell that is not a root has liberties -1 and size -1, and an
\* entry made inactive by a merge is given a non-negative value again, while
\* its cell stays occupied, by a pop alone.
C31_AbsorbedRootsStayInactive ==
    /\ []RootsAreActive
    /\ [][InactiveStaysInactive]_vars

\* A committed stone move has gone through next to a string with an
\* absorbed root, after a capture on the path, and the absorbed cell is
\* still occupied and inactive.
C31_Witness ==
    /\ StonePushed
    /\ capturedBLACK + capturedWHITE > 0
    /\ \E c \in Cells :
          /\ c # arg
          /\ lastCall.pre.board[c] # EMPTY
          /\ lastCall.pre.stringUnionFind[c] # 0 - 1
          /\ board[c] # EMPTY
          /\ stringLiberties[c] = 0 - 1
          /\ stringSizes[c] = 0 - 1

\* C32: empty cells have no registry entry.  Every empty cell has parent
\* -1, liberties -1 and size -1, whatever the order in which the stones of
\* a captured string were processed.
C32_EmptyCellsHaveNoEntry ==
    \A c \in Cells :
        board[c] = EMPTY =>
            /\ stringUnionFind[c] = 0 - 1
            /\ stringLiberties[c] = 0 - 1
            /\ stringSizes[c] = 0 - 1

\* The stones of the string with root r that are next to the cell m.
TouchingStones(b, m, r) ==
    {x \in Cells : /\ Adjacent(m, x)
                   /\ b.board[x] # EMPTY
                   /\ getStringOfStone(b.stringUnionFind, x) = r}

\* The liberty array _put_stone leaves when the side to move of b plays m,
\* before any capture.
PlacedLiberties(b, m) == put_stone(b, m, b.nextPlayer).b.stringLiberties

\* The root of the placed stone after _put_stone.
PlacedRoot(b, m) ==
    getStringOfStone(put_stone(b, m, b.nextPlayer).b.stringUnionFind, m)

\* The liberty array of b with every string next to m lowered by taken[r].
LoweredBy(b, taken) == [r \in Cells |-> b.stringLiberties[r] - taken[r]]

\* Placing the last stone pushed took taken[r] liberties from each string
\* r next to it: the enemy strings keep their roots, and the friendly ones
\* are summed, with the empty neighbours of the stone, at the root of the
\* placed stone.
PlacementTook(b, m, taken) ==
    /\ \A r \in FriendRoots(b, m, flip(b.nextPlayer)) :
           PlacedLiberties(b, m)[r] = LoweredBy(b, taken)[r]
    /\ PlacedLiberties(b, m)[PlacedRoot(b, m)]
           = Cardinality({x \in Cells : Adjacent(m, x) /\ b.board[x] = EMPTY})
               + SumSizes(LoweredBy(b, taken), FriendRoots(b, m, b.nextPlayer))

\* The cells the side to move may push a stone on.
Pushable == Elems(weak_legal_moves(Cur).moves) \ {PASS}

\* C33 as stated: committing a stone on m lowers the liberty count of each
\* distinct string next to m, enemy or friendly, by exactly one, however
\* many of its stones are next to m.
C33_PlacementMinusOne ==
    \A m \in Pushable : PlacementTook(Cur, m, [r \in Cells |-> 1])

\* C33 as amended: committing a stone on m lowers the liberty count of each
\* distinct string next to m, enemy or friendly, by the number of its
\* stones that are next to m.
C33_PlacementPerTouchingStone ==
    \A m \in Pushable :
        PlacementTook(Cur, m,
            [r \in Cells |-> Cardinality(TouchingStones(Cur, m, r))])

\* The stone just committed was placed next to two stones of one enemy
\* string, which lost its two liberties to it and was captured, and in the
\* position reached a stone can again be pushed next to a string.
C33_Witness ==
    /\ StonePushed
    /\ \E r \in FriendRoots(lastCall.pre, arg, flip(lastCall.pre.nextPlayer)) :
          /\ Cardinality(TouchingStones(lastCall.pre, arg, r)) = 2
          /\ lastCall.pre.stringLiberties[r] = 2
          /\ PlacedLiberties(lastCall.pre, arg)[r] = 0
          /\ board[r] = EMPTY
    /\ \E m \in Pushable : \E x \in Cells : Adjacent(m, x) /\ board[x] # EMPTY

\* The calls that only ask.
Queries ==
    {"legal_moves", "weak_legal_moves", "_is_suicide", "_is_super_ko",
     "_count_areas", "compute_score", "result"}

\* The root of every occupied cell.
RootsOf(grid, uf) ==
    [c \in Cells |-> IF grid[c] # EMPTY THEN RootWithin(uf, c, NbCells) ELSE 0 - 1]

ReturnedPushes == {i \in 1 .. Len(calls) : calls[i].ret \in {"True", "False"}}
ReturnedPops == {i \in 1 .. Len(calls) : calls[i].ret = "None"}

RECURSIVE Unmatched(_)
\* The pushes among the first n calls that no pop has matched yet, the
\* most recent one last.
Unmatched(n) ==
    IF n = 0 THEN << >>
    ELSE LET before == Unmatched(n - 1)
         IN IF n \in ReturnedPushes THEN Append(before, n)
            ELSE IF n \in ReturnedPops /\ before # << >>
            THEN SubSeq(before, 1, Len(before) - 1)
            ELSE before

\* The push the last call, a pop, has matched.
MatchedPush == Unmatched(Len(calls) - 1)[Len(Unmatched(Len(calls) - 1))]

\* C35: trail discipline.  Under any interleaving of push and pop calls the
\* trail is as long as the number of pushes that returned, committed or
\* rejected, minus the number of pops; the history of move names is as
\* long as the trail; and a pop restores the board and the trail saved by
\* the most recent push that no pop has matched.
C35_TrailDiscipline ==
    /\ Len(trailMoves) = Cardinality(ReturnedPushes) - Cardinality(ReturnedPops)
    /\ Len(historyMoveNames) = Len(trailMoves)
    /\ Len(Unmatched(Len(calls))) = Len(trailMoves)
    /\ (op = "pop" /\ ret = "None") =>
          /\ Cur = calls[MatchedPush].pre
          /\ trailMoves = calls[MatchedPush].trailBefore

\* A pop has matched a push that is not the call before it: a push and the
\* pop that matched it lie between the two, a capture has been undone, and
\* frames are left on the trail.
C35_Witness ==
    /\ op = "pop"
    /\ ret = "None"
    /\ MatchedPush < Len(calls) - 2
    /\ trailMoves # << >>
    /\ \E i \in 1 .. Len(calls) :
          i > MatchedPush /\ calls[i].pre.capturedBLACK + calls[i].pre.capturedWHITE > 0

\* A pop has matched a push that was rejected.
C35_WitnessRejected ==
    op = "pop" /\ ret = "None" /\ calls[MatchedPush].ret = "False"

\* The side to move after a call, given the side before it and the log
\* with the call in it: a push that committed flips it, a push that was
\* rejected leaves it, a pop gives back the side that was to move when
\* the push it matched was called.
TurnKept ==
    /\ (op' = "push" /\ ret' = "True") => nextPlayer' = flip(nextPlayer)
    /\ (op' = "push" /\ ret' = "False") => nextPlayer' = nextPlayer
    /\ (op' = "pop" /\ ret' = "None") =>
          nextPlayer' = calls'[MatchedPush'].pre.nextPlayer

\* C36: turn alternation.  Black is to move on a fresh board; every push
\* that commits, of a stone or of a pass, flips the side to move; a
\* rejected push leaves it; after a pop the side to move is the one that
\* was to move when the matching push was called.
C36_TurnAlternation ==
    /\ (calls = << >> => nextPlayer = BLACK)
    /\ [][TurnKept]_vars

\* A pop has matched a pass that White made and that is not the call
\* before it: the call after the pass is a push that committed and that a
\* pop has undone in between.
C36_Witness ==
    /\ op = "pop"
    /\ ret = "None"
    /\ calls[MatchedPush].m = PASS
    /\ calls[MatchedPush].ret = "True"
    /\ MatchedPush < Len(calls) - 2
    /\ calls[MatchedPush + 1].ret = "True"
    /\ nextPlayer = WHITE

\* A push has been rejected and the side to move is the one that called it.
C36_WitnessRejected ==
    op = "push" /\ ret = "False" /\ nextPlayer = lastCall.pre.nextPlayer

\* The calls that run _count_areas.
Scorers == {"_count_areas", "compute_score", "result"}

\* C37: the assertions of the scorer are valid.  In every state reached by
\* pushes of moves taken from weak_legal_moves() and by pops, whichever
\* cell the scorer takes first from the cells to check, no assertion of
\* _count_areas fails: the start cell of an area is empty, no cell visited
\* is still to check, and every empty area touches a stone unless both
\* stone counters are zero; so no scoring call ends in an AssertionError.
C37_ScorerAssertionsHold ==
    /\ \A score \in count_areas(Cur) : score.assertOk
    /\ op \in Scorers => ret # "AssertionError"

\* The scorer has returned on a board, reached across a capture, that has
\* stones of one colour on one diagonal and two empty areas of one cell on
\* the other.
C37_Witness ==
    /\ op \in Scorers
    /\ ret # "AssertionError"
    /\ capturedBLACK + capturedWHITE > 0
    /\ board[0] # EMPTY
    /\ board[3] = board[0]
    /\ board[1] = EMPTY
    /\ board[2] = EMPTY

\* The scorer has returned on a board with no stone, whose one area touches
\* none, after a pass.
C37_WitnessNoStone ==
    /\ op \in Scorers
    /\ ret # "AssertionError"
    /\ nbBLACK = 0
    /\ nbWHITE = 0
    /\ historyMoveNames # << >>

====
